---- MODULE Spec2Model ----
(***************************************************************************)
(* A model of plox, a tree-walking interpreter for Lox written in Python.  *)
(* The pipeline is scanner -> parser -> resolver -> interpreter, driven by *)
(* Lox.run.  Source text is a sequence of one-character strings; tokens,   *)
(* AST nodes and runtime values are records.                               *)
(***************************************************************************)
EXTENDS Integers, Sequences, FiniteSets, TLC

VARIABLES
    pc,          \* position of the running operation
    source,      \* the source text handed to Lox.run or to the Scanner
    sc,          \* the Scanner object
    ps,          \* the Parser object with the statement list parse() is building
    statements,  \* the statement list handed to the resolver and the interpreter
    interp,      \* the Interpreter object: frames, environment, locals, stdout
    idx,         \* index of the next top-level statement of Interpreter.interpret
    lox,         \* the Lox classes' flags, standard error, the exit code
    probe        \* argument and result of a function applied on its own

vars == <<pc, source, sc, ps, statements, interp, idx, lox, probe>>

-----------------------------------------------------------------------------
(* Bounds of the model.                                                    *)

\* Largest number of loop iterations / calls one statement may use before the
\* model reports that it did not finish.
MaxFuel == 6

-----------------------------------------------------------------------------
(* Runtime values (lox_token.Lox_Literal and the interpreter's objects).    *)
(* Every value has the same shape: a tag t, a number n and a string s.      *)
(* Numbers are Python floats; the model keeps them as hundredths, so 1.25   *)
(* is n = 125 and 1.0 is n = 100.                                           *)

NilV == [t |-> "nil", n |-> 0, s |-> <<>>]
BoolV(b) == [t |-> "bool", n |-> IF b THEN 1 ELSE 0, s |-> <<>>]
NumV(h) == [t |-> "num", n |-> h, s |-> <<>>]
StrV(chars) == [t |-> "str", n |-> 0, s |-> chars]
FunV(id) == [t |-> "fun", n |-> id, s |-> <<>>]
ClassV(id) == [t |-> "class", n |-> id, s |-> <<>>]
InstanceV(id) == [t |-> "instance", n |-> id, s |-> <<>>]
NativeV == [t |-> "native", n |-> 0, s |-> <<"c", "l", "o", "c", "k">>]

\* Python's == on two runtime values.  bool is a subclass of int, so True == 1.0
\* and False == 0.0; None equals only None; str compares by content; the other
\* objects compare by identity (their heap id).
PyEq(a, b) ==
    IF a.t \in {"bool", "num"} /\ b.t \in {"bool", "num"}
    THEN (IF a.t = "bool" THEN a.n * 100 ELSE a.n) = (IF b.t = "bool" THEN b.n * 100 ELSE b.n)
    ELSE a.t = b.t /\ a.n = b.n /\ a.s = b.s

-----------------------------------------------------------------------------
(* Characters.                                                             *)

Digits == {"0", "1", "2", "3", "4", "5", "6", "7", "8", "9"}
Letters == {"a", "b", "c", "d", "e", "f", "g", "h", "i", "j", "k", "l", "m",
            "n", "o", "p", "q", "r", "s", "t", "u", "v", "w", "x", "y", "z",
            "A", "B", "C", "D", "E", "F", "G", "H", "I", "J", "K", "L", "M",
            "N", "O", "P", "Q", "R", "S", "T", "U", "V", "W", "X", "Y", "Z", "_"}

\* What peek() returns at the end of the source ('\0').
NUL == "NUL"

is_digit(c) == c \in Digits
is_alpha(c) == c \in Letters
is_alphanum(c) == is_alpha(c) \/ is_digit(c)

DigitVal(c) ==
    CASE c = "0" -> 0 [] c = "1" -> 1 [] c = "2" -> 2 [] c = "3" -> 3 [] c = "4" -> 4
      [] c = "5" -> 5 [] c = "6" -> 6 [] c = "7" -> 7 [] c = "8" -> 8 [] c = "9" -> 9

DigitChar(d) ==
    CASE d = 0 -> "0" [] d = 1 -> "1" [] d = 2 -> "2" [] d = 3 -> "3" [] d = 4 -> "4"
      [] d = 5 -> "5" [] d = 6 -> "6" [] d = 7 -> "7" [] d = 8 -> "8" [] d = 9 -> "9"

\* source[a:b] of Python, on 0-based positions.
Slice(s, a, b) == IF b <= a THEN <<>> ELSE SubSeq(s, a + 1, b)

RECURSIVE DigitsValue(_)
DigitsValue(ds) ==
    IF ds = <<>> THEN 0
    ELSE 10 * DigitsValue(SubSeq(ds, 1, Len(ds) - 1)) + DigitVal(ds[Len(ds)])

RECURSIVE IndexOf(_, _, _)
IndexOf(s, c, i) ==
    IF i > Len(s) THEN 0 ELSE IF s[i] = c THEN i ELSE IndexOf(s, c, i + 1)

\* float(text) for a number lexeme: digits, optionally '.' and digits.  The
\* result is in hundredths; fraction digits past the second are dropped.
ToFloat(text) ==
    LET dot == IndexOf(text, ".", 1)
        ip == IF dot = 0 THEN text ELSE SubSeq(text, 1, dot - 1)
        fp == IF dot = 0 THEN <<>> ELSE SubSeq(text, dot + 1, Len(text))
        f1 == IF Len(fp) >= 1 THEN DigitVal(fp[1]) ELSE 0
        f2 == IF Len(fp) >= 2 THEN DigitVal(fp[2]) ELSE 0
    IN  DigitsValue(ip) * 100 + f1 * 10 + f2

-----------------------------------------------------------------------------
(* Tokens (lox_token.Token) and error reports (lox.Lox.report).            *)

Token(type, lexeme, literal, line) ==
    [type |-> type, lexeme |-> lexeme, literal |-> literal, line |-> line]

\* One line on standard error: "[line N] Error<where>: <message>".  at is ""
\* for a scan error, "end" for " at end" and "token" for " at '<lexeme>'".
Report(line, at, lexeme, message) ==
    [line |-> line, at |-> at, lexeme |-> lexeme, message |-> message]

scan_error(line, message) == Report(line, "", <<>>, message)

parse_error(token, message) ==
    IF token.type = "EOF"
    THEN Report(token.line, "end", <<>>, message)
    ELSE Report(token.line, "token", token.lexeme, message)

-----------------------------------------------------------------------------
(* Scanner (scanner.py).                                                   *)

simple_one_char_lexemes ==
    [c \in {"(", ")", "{", "}", ",", ".", "-", "+", ";", "*"} |->
        CASE c = "(" -> "LEFT_PAREN" [] c = ")" -> "RIGHT_PAREN"
          [] c = "{" -> "LEFT_BRACE" [] c = "}" -> "RIGHT_BRACE"
          [] c = "," -> "COMMA" [] c = "." -> "DOT" [] c = "-" -> "MINUS"
          [] c = "+" -> "PLUS" [] c = ";" -> "SEMICOLON" [] c = "*" -> "STAR"]

\* For each first character: <<token when '=' follows, token otherwise>>.
simple_two_char_lexemes ==
    [c \in {"!", "=", "<", ">"} |->
        CASE c = "!" -> <<"BANG_EQUAL", "BANG">>
          [] c = "=" -> <<"EQUAL_EQUAL", "EQUAL">>
          [] c = "<" -> <<"LESS_EQUAL", "LESS">>
          [] c = ">" -> <<"GREATER_EQUAL", "GREATER">>]

keyword_lexemes ==
    (<<"a", "n", "d">> :> "AND") @@ (<<"c", "l", "a", "s", "s">> :> "CLASS")
    @@ (<<"e", "l", "s", "e">> :> "ELSE") @@ (<<"f", "a", "l", "s", "e">> :> "FALSE")
    @@ (<<"f", "o", "r">> :> "FOR") @@ (<<"f", "u", "n">> :> "FUN")
    @@ (<<"i", "f">> :> "IF") @@ (<<"n", "i", "l">> :> "NIL")
    @@ (<<"o", "r">> :> "OR") @@ (<<"p", "r", "i", "n", "t">> :> "PRINT")
    @@ (<<"r", "e", "t", "u", "r", "n">> :> "RETURN")
    @@ (<<"s", "u", "p", "e", "r">> :> "SUPER") @@ (<<"t", "h", "i", "s">> :> "THIS")
    @@ (<<"t", "r", "u", "e">> :> "TRUE") @@ (<<"v", "a", "r">> :> "VAR")
    @@ (<<"w", "h", "i", "l", "e">> :> "WHILE")

\* keyword_lexemes.get(text, IDENTIFIER)
KeywordType(text) ==
    IF text \in DOMAIN keyword_lexemes THEN keyword_lexemes[text] ELSE "IDENTIFIER"

\* Scanner.__init__
Scanner(src) ==
    [source |-> src, tokens |-> <<>>, start |-> 0, current |-> 0, line |-> 1,
     errs |-> <<>>]

sc_is_at_end(s) == s.current >= Len(s.source)
sc_peek(s) == IF sc_is_at_end(s) THEN NUL ELSE s.source[s.current + 1]
sc_peek_next(s) ==
    IF s.current + 1 >= Len(s.source) THEN NUL ELSE s.source[s.current + 2]
sc_advance(s) == [s EXCEPT !.current = s.current + 1]
sc_match(s, expected) == ~sc_is_at_end(s) /\ s.source[s.current + 1] = expected

add_token(s, ttype, literal) ==
    [s EXCEPT !.tokens =
        Append(s.tokens, Token(ttype, Slice(s.source, s.start, s.current), literal, s.line))]

sc_report(s, message) == [s EXCEPT !.errs = Append(s.errs, scan_error(s.line, message))]

\* while self.peek() != "\n" and not self.is_at_end(): self.advance()
RECURSIVE SkipLineComment(_)
SkipLineComment(s) ==
    IF sc_peek(s) # "\n" /\ ~sc_is_at_end(s) THEN SkipLineComment(sc_advance(s)) ELSE s

\* The body loop of a block comment; prev is the last character read.
RECURSIVE SkipBlockComment(_, _)
SkipBlockComment(s, prev) ==
    IF prev = "*" /\ sc_peek(s) = "/" THEN s
    ELSE IF sc_is_at_end(s) THEN sc_report(s, "Unterminated block comment")
    ELSE SkipBlockComment(sc_advance(s), sc_peek(s))

RECURSIVE AdvanceWhileAlnum(_)
AdvanceWhileAlnum(s) ==
    IF is_alphanum(sc_peek(s)) THEN AdvanceWhileAlnum(sc_advance(s)) ELSE s

RECURSIVE AdvanceWhileDigit(_)
AdvanceWhileDigit(s) ==
    IF is_digit(sc_peek(s)) THEN AdvanceWhileDigit(sc_advance(s)) ELSE s

RECURSIVE AdvanceInString(_)
AdvanceInString(s) ==
    IF sc_peek(s) \notin {"\"", "\n"} /\ ~sc_is_at_end(s)
    THEN AdvanceInString(sc_advance(s)) ELSE s

identifier(s) ==
    LET s1 == AdvanceWhileAlnum(s)
        text == Slice(s1.source, s1.start, s1.current)
    IN  add_token(s1, KeywordType(text), NilV)

number(s) ==
    LET s1 == AdvanceWhileDigit(s)
        s2 == IF sc_peek(s1) = "." /\ is_digit(sc_peek_next(s1))
              THEN AdvanceWhileDigit(sc_advance(s1)) ELSE s1
        text == Slice(s2.source, s2.start, s2.current)
    IN  add_token(s2, "NUMBER", NumV(ToFloat(text)))

\* string() without the test for the end of the source: the closing quote
\* is moved over although there is none.
string_without_end_check(s) ==
    LET s1 == AdvanceInString(s) IN
    IF sc_is_at_end(s1) \/ sc_peek(s1) = "\n"
    THEN sc_advance(sc_report(s1, "Unterminated string."))
    ELSE LET s2 == sc_advance(s1)
         IN  add_token(s2, "STRING", StrV(Slice(s2.source, s2.start + 1, s2.current - 1)))

string(s) ==
    LET s1 == AdvanceInString(s) IN
    IF sc_is_at_end(s1) \/ sc_peek(s1) = "\n"
    THEN sc_report(s1, "Unterminated string.")
    ELSE LET s2 == sc_advance(s1)
         IN  add_token(s2, "STRING", StrV(Slice(s2.source, s2.start + 1, s2.current - 1)))

\* Scanner.scan_token, entered with start = current.
scan_token(s0) ==
    LET c == s0.source[s0.current + 1]
        s == sc_advance(s0)
    IN  IF c \in DOMAIN simple_one_char_lexemes
        THEN add_token(s, simple_one_char_lexemes[c], NilV)
        ELSE IF c \in DOMAIN simple_two_char_lexemes
        THEN IF sc_match(s, "=")
             THEN add_token(sc_advance(s), simple_two_char_lexemes[c][1], NilV)
             ELSE add_token(s, simple_two_char_lexemes[c][2], NilV)
        ELSE IF c = "/"
        THEN IF sc_match(s, "/") THEN SkipLineComment(sc_advance(s))
             ELSE IF sc_match(s, "*")
             THEN LET s1 == sc_advance(s)
                      s2 == SkipBlockComment(s1, sc_peek(s1))
                  IN  IF ~sc_is_at_end(s2) THEN sc_advance(s2) ELSE s2
             ELSE add_token(s, "SLASH", NilV)
        ELSE IF c \in {" ", "\t", "\r", "\n"}
        THEN [s EXCEPT !.line = s.line + (IF c = "\n" THEN 1 ELSE 0)]
        ELSE IF c = "\"" THEN string(s)
        ELSE IF is_digit(c) THEN number(s)
        ELSE IF is_alpha(c) THEN identifier(s)
        ELSE sc_report(s, "Unexpected character")

\* One iteration of the loop of Scanner.scan_tokens.
ScanStep(s) == scan_token([s EXCEPT !.start = s.current])

\* The end of Scanner.scan_tokens: the EOF token.
ScanEnd(s) == [s EXCEPT !.tokens = Append(s.tokens, Token("EOF", <<>>, NilV, s.line))]

RECURSIVE ScanLoop(_)
ScanLoop(s) == IF sc_is_at_end(s) THEN ScanEnd(s) ELSE ScanLoop(ScanStep(s))

\* Scanner(source).scan_tokens(), with the errors it reported.
scan_tokens(src) == ScanLoop(Scanner(src))

-----------------------------------------------------------------------------
(* AST nodes (expr_ast.py, stmt_ast.py).  Each NamedTuple is a record with  *)
(* the class name in k and the fields under their own names; None is        *)
(* NoneNode.                                                                *)

NoneNode == [k |-> "None"]

BinaryExpr(left, operator, right) ==
    [k |-> "BinaryExpr", left |-> left, operator |-> operator, right |-> right]
GroupingExpr(expression) == [k |-> "GroupingExpr", expression |-> expression]
LiteralExpr(value) == [k |-> "LiteralExpr", value |-> value]
UnaryExpr(operator, right) == [k |-> "UnaryExpr", operator |-> operator, right |-> right]
VariableExpr(token) == [k |-> "VariableExpr", token |-> token]
AssignExpr(token, value) == [k |-> "AssignExpr", token |-> token, value |-> value]
LogicalExpr(left, operator, right) ==
    [k |-> "LogicalExpr", left |-> left, operator |-> operator, right |-> right]
CallExpr(callee, r_paren, arguments) ==
    [k |-> "CallExpr", callee |-> callee, r_paren |-> r_paren, arguments |-> arguments]
GetExpr(instance, token) == [k |-> "GetExpr", instance |-> instance, token |-> token]
SetExpr(instance, token, value) ==
    [k |-> "SetExpr", instance |-> instance, token |-> token, value |-> value]
ThisExpr(token) == [k |-> "ThisExpr", token |-> token]
SuperExpr(token, method) == [k |-> "SuperExpr", token |-> token, method |-> method]

VarStmt(name, initializer) == [k |-> "VarStmt", name |-> name, initializer |-> initializer]
ExpressionStmt(expression) == [k |-> "ExpressionStmt", expression |-> expression]
PrintStmt(expression) == [k |-> "PrintStmt", expression |-> expression]
BlockStmt(stmts) == [k |-> "BlockStmt", statements |-> stmts]
IfStmt(condition, then_branch, else_branch) ==
    [k |-> "IfStmt", condition |-> condition, then_branch |-> then_branch,
     else_branch |-> else_branch]
WhileStmt(condition, body) == [k |-> "WhileStmt", condition |-> condition, body |-> body]
BreakStmt(token) == [k |-> "BreakStmt", token |-> token]
FunctionStmt(token, params, body) ==
    [k |-> "FunctionStmt", token |-> token, params |-> params, body |-> body]
ReturnStmt(token, value) == [k |-> "ReturnStmt", token |-> token, value |-> value]
ClassStmt(token, superclass, methods) ==
    [k |-> "ClassStmt", token |-> token, superclass |-> superclass, methods |-> methods]

-----------------------------------------------------------------------------
(* Parser (lox_parser.py).  A parsing method takes the Parser object p and  *)
(* returns [p, node, exc]: the object afterwards, the value returned, and   *)
(* exc = "error" when LoxParseError was raised, "hang" when the method      *)
(* never returns.                                                           *)

\* The parameter and argument limit of function() and finish_call().
MaxArgs == 255

\* Parser.__init__
Parser(tokens) == [tokens |-> tokens, current |-> 0, loop_depth |-> 0, errs |-> <<>>]

Ok(p, node) == [p |-> p, node |-> node, exc |-> "none"]
Raise(p) == [p |-> p, node |-> NoneNode, exc |-> "error"]
Hang(p) == [p |-> p, node |-> NoneNode, exc |-> "hang"]

p_peek(p) == p.tokens[p.current + 1]
\* tokens[current - 1]; Python's index -1 is the last token.
p_previous(p) == IF p.current = 0 THEN p.tokens[Len(p.tokens)] ELSE p.tokens[p.current]
p_is_at_end(p) == p_peek(p).type = "EOF"
p_advance(p) == IF ~p_is_at_end(p) THEN [p EXCEPT !.current = p.current + 1] ELSE p
p_check(p, ttype) == ~p_is_at_end(p) /\ p_peek(p).type = ttype
\* The test of Parser.match; when it holds the caller goes on from p_advance(p).
p_match(p, ttypes) == ~(p_is_at_end(p) \/ p_peek(p).type \notin ttypes)

\* Parser.error: reports, and returns the LoxParseError for the caller to raise.
p_error(p, token, message) == [p EXCEPT !.errs = Append(p.errs, parse_error(token, message))]

consume(p, ttype, message) ==
    IF p_check(p, ttype)
    THEN Ok(p_advance(p), p_previous(p_advance(p)))
    ELSE Raise(p_error(p, p_peek(p), message))

RECURSIVE SyncLoop(_)
SyncLoop(p) ==
    IF p_is_at_end(p) THEN p
    ELSE IF p_previous(p).type = "SEMICOLON" THEN p
    ELSE IF p_peek(p).type \in {"CLASS", "FUN", "VAR", "FOR", "IF", "WHILE", "PRINT", "RETURN"}
    THEN p
    ELSE SyncLoop(p_advance(p))

synchronize(p) == SyncLoop(p_advance(p))

\* "x = f(...)" followed by code that uses x: a LoxParseError raised by f, or
\* f never returning, ends the caller too; otherwise the caller goes on with
\* the parser and the value f returned.
Bind(r, K(_, _)) == IF r.exc # "none" THEN r ELSE K(r.p, r.node)

RECURSIVE expression(_), assignment(_), or_expr(_), or_loop(_, _), and_expr(_),
          and_loop(_, _), equality(_), equality_loop(_, _), comparison(_),
          comparison_loop(_, _), term(_), term_loop(_, _), factor(_),
          factor_loop(_, _), unary(_), call(_), call_loop(_, _), finish_call(_, _),
          get_args(_, _), primary(_)

\* The raise of detect_illegal_binary_operator, after the right operand r.
raise_illegal_binary_operator(r) ==
    IF r.exc = "hang" THEN r
    ELSE Raise(p_error(r.p, p_previous(r.p), "Expected expression left of binary operator"))

detect_illegal_binary_operator(p) ==
    IF p_match(p, {"BANG_EQUAL", "EQUAL_EQUAL", "LESS", "LESS_EQUAL", "GREATER",
                   "GREATER_EQUAL", "PLUS", "SLASH", "STAR"})
    THEN raise_illegal_binary_operator(expression(p_advance(p)))
    ELSE Ok(p, NoneNode)

\* The value of a literal token in primary.
literal_value(token) ==
    CASE token.type = "FALSE" -> BoolV(FALSE)
      [] token.type = "TRUE" -> BoolV(TRUE)
      [] token.type = "NIL" -> NilV
      [] OTHER -> token.literal

primary(p) ==
    IF p_match(p, {"NUMBER", "STRING", "TRUE", "FALSE", "NIL"})
    THEN Ok(p_advance(p), LiteralExpr(literal_value(p_previous(p_advance(p)))))
    ELSE IF p_match(p, {"THIS"})
    THEN Ok(p_advance(p), ThisExpr(p_previous(p_advance(p))))
    ELSE IF p_match(p, {"SUPER"})
    THEN Bind(consume(p_advance(p), "DOT", "Expect '.' after 'super'"), LAMBDA p1, d :
         Bind(consume(p1, "IDENTIFIER", "Expect superclass method name."), LAMBDA p2, m :
         Ok(p2, SuperExpr(p_previous(p_advance(p)), m))))
    ELSE IF p_match(p, {"IDENTIFIER"})
    THEN Ok(p_advance(p), VariableExpr(p_previous(p_advance(p))))
    ELSE IF p_match(p, {"LEFT_PAREN"})
    THEN Bind(expression(p_advance(p)), LAMBDA p1, e :
         Bind(consume(p1, "RIGHT_PAREN", "Expcted ')' after expression."), LAMBDA p2, c :
         Ok(p2, GroupingExpr(e))))
    ELSE Raise(p_error(p, p_peek(p), "Expected expression."))

\* The generator get_args: args holds the expressions yielded so far.
get_args(p, args) ==
    Bind(expression(p), LAMBDA p1, e :
    IF p_match(p1, {"COMMA"}) THEN get_args(p_advance(p1), Append(args, e))
    ELSE Ok(p1, Append(args, e)))

finish_call(p, callee) ==
    Bind(IF ~p_check(p, "RIGHT_PAREN") THEN get_args(p, <<>>) ELSE Ok(p, <<>>), LAMBDA p1, a :
    Bind(consume(p1, "RIGHT_PAREN", "Expect ') after function arguments."), LAMBDA p2, c :
    Ok(IF Len(a) >= MaxArgs
       THEN p_error(p2, p_peek(p2), "Can't have more than 255 arguments") ELSE p2,
       CallExpr(callee, c, a))))

call_loop(p, expr) ==
    IF p_match(p, {"LEFT_PAREN"}) THEN Bind(finish_call(p_advance(p), expr), call_loop)
    ELSE IF p_match(p, {"DOT"})
    THEN Bind(consume(p_advance(p), "IDENTIFIER", "Expect property name after '.'."),
              LAMBDA p1, t : call_loop(p1, GetExpr(expr, t)))
    ELSE Ok(p, expr)

call(p) == Bind(primary(p), call_loop)

unary(p) ==
    IF p_match(p, {"BANG", "MINUS"})
    THEN Bind(unary(p_advance(p)), LAMBDA p1, r :
              Ok(p1, UnaryExpr(p_previous(p_advance(p)), r)))
    ELSE call(p)

\* The loops of factor, term, comparison, equality, and_expr and or_expr:
\* "expr = operand(); while match(...): expr = Node(expr, previous(),
\* operand())".  Each loop operator parses one operand; node is None for the
\* first operand and afterwards the node built so far, still without its
\* right operand.
with_right(node, right) == IF node = NoneNode THEN right ELSE [node EXCEPT !.right = right]

factor_loop(p, node) ==
    Bind(unary(p), LAMBDA p1, r :
    IF p_match(p1, {"SLASH", "STAR"})
    THEN factor_loop(p_advance(p1),
                     BinaryExpr(with_right(node, r), p_previous(p_advance(p1)), NoneNode))
    ELSE Ok(p1, with_right(node, r)))

factor(p) == factor_loop(p, NoneNode)

term_loop(p, node) ==
    Bind(factor(p), LAMBDA p1, r :
    IF p_match(p1, {"MINUS", "PLUS"})
    THEN term_loop(p_advance(p1),
                   BinaryExpr(with_right(node, r), p_previous(p_advance(p1)), NoneNode))
    ELSE Ok(p1, with_right(node, r)))

term(p) == term_loop(p, NoneNode)

comparison_loop(p, node) ==
    Bind(term(p), LAMBDA p1, r :
    IF p_match(p1, {"LESS", "LESS_EQUAL", "GREATER", "GREATER_EQUAL"})
    THEN comparison_loop(p_advance(p1),
                         BinaryExpr(with_right(node, r), p_previous(p_advance(p1)), NoneNode))
    ELSE Ok(p1, with_right(node, r)))

comparison(p) == comparison_loop(p, NoneNode)

equality_loop(p, node) ==
    Bind(comparison(p), LAMBDA p1, r :
    IF p_match(p1, {"BANG_EQUAL", "EQUAL_EQUAL"})
    THEN equality_loop(p_advance(p1),
                       BinaryExpr(with_right(node, r), p_previous(p_advance(p1)), NoneNode))
    ELSE Ok(p1, with_right(node, r)))

equality(p) ==
    Bind(detect_illegal_binary_operator(p), LAMBDA p0, n : equality_loop(p0, NoneNode))

\* The token kinds the loop of and_expr matches.
and_expr_operators == {"AND"}

and_loop(p, node) ==
    Bind(equality(p), LAMBDA p1, r :
    IF p_match(p1, and_expr_operators)
    THEN and_loop(p_advance(p1),
                  LogicalExpr(with_right(node, r), p_previous(p_advance(p1)), NoneNode))
    ELSE Ok(p1, with_right(node, r)))

and_expr(p) == and_loop(p, NoneNode)

\* The token kinds the loop of or_expr matches.
or_expr_operators == {"AND"}

or_loop(p, node) ==
    Bind(and_expr(p), LAMBDA p1, r :
    IF p_match(p1, or_expr_operators)
    THEN or_loop(p_advance(p1),
                 LogicalExpr(with_right(node, r), p_previous(p_advance(p1)), NoneNode))
    ELSE Ok(p1, with_right(node, r)))

or_expr(p) == or_loop(p, NoneNode)

\* The end of assignment: expr is the left side, value the right side.
assign_to(p, expr, value) ==
    IF expr.k = "VariableExpr" THEN Ok(p, AssignExpr(expr.token, value))
    ELSE IF expr.k = "GetExpr" THEN Ok(p, SetExpr(expr.instance, expr.token, value))
    ELSE Ok(p_error(p, p_previous(p), "Invalid assignment target."), expr)

assignment(p) ==
    Bind(or_expr(p), LAMBDA p1, e :
    IF p_match(p1, {"EQUAL"})
    THEN Bind(assignment(p_advance(p1)), LAMBDA p2, v : assign_to(p2, e, v))
    ELSE Ok(p1, e))

expression(p) == assignment(p)

RECURSIVE declaration(_), statement(_), block(_), block_loop(_, _), function(_, _),
          get_params(_, _), class_declaration(_), get_methods(_, _), for_statement(_),
          if_statement(_), while_statement(_)

var_declaration(p) ==
    Bind(consume(p, "IDENTIFIER", "Expect variable name."), LAMBDA p1, n :
    Bind(IF p_match(p1, {"EQUAL"}) THEN expression(p_advance(p1)) ELSE Ok(p1, NoneNode),
         LAMBDA p2, i :
    Bind(consume(p2, "SEMICOLON", "Expect ';' after variable declaration."), LAMBDA p3, c :
    Ok(p3, VarStmt(n, i)))))

print_statement(p) ==
    Bind(expression(p), LAMBDA p1, v :
    Bind(consume(p1, "SEMICOLON", "Expect ';' after value."), LAMBDA p2, c :
    Ok(p2, PrintStmt(v))))

expression_statement(p) ==
    Bind(expression(p), LAMBDA p1, e :
    Bind(consume(p1, "SEMICOLON", "Expect ';' after expression."), LAMBDA p2, c :
    Ok(p2, ExpressionStmt(e))))

if_statement(p) ==
    Bind(consume(p, "LEFT_PAREN", "Expect '(' after 'if'."), LAMBDA p1, l :
    Bind(expression(p1), LAMBDA p2, c :
    Bind(consume(p2, "RIGHT_PAREN", "Expect ')' after 'if' condition."), LAMBDA p3, r :
    Bind(statement(p3), LAMBDA p4, t :
    Bind(IF p_match(p4, {"ELSE"}) THEN statement(p_advance(p4)) ELSE Ok(p4, NoneNode),
         LAMBDA p5, e :
    Ok(p5, IfStmt(c, t, e)))))))

\* self.loop_depth += 1; body = self.statement(); self.loop_depth -= 1.  The
\* decrement is skipped when statement() raises.
loop_body(p) ==
    Bind(statement([p EXCEPT !.loop_depth = p.loop_depth + 1]), LAMBDA p1, b :
    Ok([p1 EXCEPT !.loop_depth = p1.loop_depth - 1], b))

while_statement(p) ==
    Bind(consume(p, "LEFT_PAREN", "Expect '(' after 'while'."), LAMBDA p1, l :
    Bind(expression(p1), LAMBDA p2, c :
    Bind(consume(p2, "RIGHT_PAREN", "Expect ')' after 'while' condition."), LAMBDA p3, r :
    Bind(loop_body(p3), LAMBDA p4, b :
    Ok(p4, WhileStmt(c, b))))))

\* Entered after match(BREAK).
break_statement(p) ==
    IF p.loop_depth = 0
    THEN Raise(p_error(p, p_previous(p), "Expect 'break' to appear inside a loop."))
    ELSE Bind(consume(p, "SEMICOLON", "Expect ';' after break."), LAMBDA p1, c :
              Ok(p1, BreakStmt(p_previous(p))))

\* The statement for_statement builds from its clauses and body.
for_desugar(initializer, condition, increment, body) ==
    LET while_body == BlockStmt(<<body>> \o (IF increment # NoneNode
                                             THEN <<ExpressionStmt(increment)>> ELSE <<>>))
        while_cond == IF condition # NoneNode THEN condition ELSE LiteralExpr(BoolV(TRUE))
    IN  IF initializer # NoneNode
        THEN BlockStmt(<<initializer, WhileStmt(while_cond, while_body)>>)
        ELSE WhileStmt(while_cond, while_body)

for_statement(p) ==
    Bind(consume(p, "LEFT_PAREN", "Expect '(' after 'for'."), LAMBDA p1, l :
    Bind(IF p_match(p1, {"SEMICOLON"}) THEN Ok(p_advance(p1), NoneNode)
         ELSE IF p_match(p1, {"VAR"}) THEN var_declaration(p_advance(p1))
         ELSE expression_statement(p1), LAMBDA p2, initializer :
    Bind(IF p_check(p2, "SEMICOLON") THEN Ok(p2, NoneNode) ELSE expression(p2),
         LAMBDA p3, condition :
    Bind(consume(p3, "SEMICOLON", "Expect ';' after loop condition."), LAMBDA p4, s :
    Bind(IF p_check(p4, "RIGHT_PAREN") THEN Ok(p4, NoneNode) ELSE expression(p4),
         LAMBDA p5, increment :
    Bind(consume(p5, "RIGHT_PAREN", "Expect ')' after for clause"), LAMBDA p6, r :
    Bind(loop_body(p6), LAMBDA p7, b :
    Ok(p7, for_desugar(initializer, condition, increment, b)))))))))

\* Entered after match(RETURN).
return_statement(p) ==
    Bind(IF ~p_check(p, "SEMICOLON") THEN expression(p) ELSE Ok(p, NoneNode), LAMBDA p1, v :
    Bind(consume(p1, "SEMICOLON", "Expect ';' after return statement"), LAMBDA p2, c :
    Ok(p2, ReturnStmt(p_previous(p), v))))

statement(p) ==
    IF p_match(p, {"FOR"}) THEN for_statement(p_advance(p))
    ELSE IF p_match(p, {"IF"}) THEN if_statement(p_advance(p))
    ELSE IF p_match(p, {"PRINT"}) THEN print_statement(p_advance(p))
    ELSE IF p_match(p, {"WHILE"}) THEN while_statement(p_advance(p))
    ELSE IF p_match(p, {"LEFT_BRACE"})
    THEN Bind(block(p_advance(p)), LAMBDA p1, b : Ok(p1, BlockStmt(b)))
    ELSE IF p_match(p, {"BREAK"}) THEN break_statement(p_advance(p))
    ELSE IF p_match(p, {"RETURN"}) THEN return_statement(p_advance(p))
    ELSE expression_statement(p)

\* The generator get_statements of block(): stmts holds what was yielded so far.
\* At EOF check(RIGHT_BRACE) is false and declaration() neither advances nor
\* raises, so from there the loop never ends.
block_loop(p, stmts) ==
    IF p_check(p, "RIGHT_BRACE") THEN Ok(p, stmts)
    ELSE Bind(declaration(p), LAMBDA p1, d :
              IF p_is_at_end(p1) THEN Hang(p1) ELSE block_loop(p1, Append(stmts, d)))

block(p) ==
    Bind(block_loop(p, <<>>), LAMBDA p1, s :
    Bind(consume(p1, "RIGHT_BRACE", "Expect '}' after block."), LAMBDA p2, c :
    Ok(p2, s)))

\* The generator get_params of function().
get_params(p, params) ==
    Bind(consume(p, "IDENTIFIER", "Expect parameter name."), LAMBDA p1, n :
    IF p_match(p1, {"COMMA"}) THEN get_params(p_advance(p1), Append(params, n))
    ELSE Ok(p1, Append(params, n)))

function(p, kind) ==
    Bind(consume(p, "IDENTIFIER", IF kind = "function" THEN "Expect function name."
                                  ELSE "Expect method name."), LAMBDA p1, t :
    Bind(consume(p1, "LEFT_PAREN", IF kind = "function" THEN "Expect '(' after function name."
                                   ELSE "Expect '(' after method name."), LAMBDA p2, l :
    Bind(IF ~p_check(p2, "RIGHT_PAREN") THEN get_params(p2, <<>>) ELSE Ok(p2, <<>>),
         LAMBDA p3, params :
    Bind(consume(p3, "RIGHT_PAREN", "Expect ')' after parameter list."), LAMBDA p4, r :
    Bind(consume(IF Len(params) >= MaxArgs
                 THEN p_error(p4, p_peek(p4), "Can't have more than 255 parameters.")
                 ELSE p4,
                 "LEFT_BRACE", IF kind = "function" THEN "Expect { before function body."
                               ELSE "Expect { before method body."), LAMBDA p5, b0 :
    Bind(block(p5), LAMBDA p6, b :
    Ok(p6, FunctionStmt(t, params, b))))))))

\* The generator get_methods of class_declaration().
get_methods(p, methods) ==
    IF p_check(p, "RIGHT_BRACE") \/ p_is_at_end(p) THEN Ok(p, methods)
    ELSE Bind(function(p, "method"), LAMBDA p1, f : get_methods(p1, Append(methods, f)))

class_declaration(p) ==
    Bind(consume(p, "IDENTIFIER", "Expect class name."), LAMBDA p1, t :
    Bind(IF p_match(p1, {"LESS"})
         THEN Bind(consume(p_advance(p1), "IDENTIFIER", "Expect superclass name"),
                   LAMBDA p2, n : Ok(p2, VariableExpr(p_previous(p2))))
         ELSE Ok(p1, NoneNode), LAMBDA p3, superclass :
    Bind(consume(p3, "LEFT_BRACE", "Expect '{' before class body."), LAMBDA p4, l :
    Bind(get_methods(p4, <<>>), LAMBDA p5, m :
    Bind(consume(p5, "RIGHT_BRACE", "Expect '}' after class body"), LAMBDA p6, r :
    Ok(p6, ClassStmt(t, superclass, m)))))))

\* "except LoxParseError" of Parser.declaration: the parser synchronizes and
\* None is returned.
catch_parse_error(r) == IF r.exc = "error" THEN Ok(synchronize(r.p), NoneNode) ELSE r

declaration(p) ==
    catch_parse_error(IF p_match(p, {"VAR"}) THEN var_declaration(p_advance(p))
                      ELSE IF p_match(p, {"FUN"}) THEN function(p_advance(p), "function")
                      ELSE IF p_match(p, {"CLASS"}) THEN class_declaration(p_advance(p))
                      ELSE statement(p))

\* statements.append(decl) "if decl" in the loop of Parser.parse.
append_declaration(q, d) ==
    [p |-> d.p,
     statements |-> IF d.exc = "none" /\ d.node # NoneNode
                    THEN Append(q.statements, d.node) ELSE q.statements,
     exc |-> d.exc]

\* One iteration of the loop of Parser.parse.  q is [p, statements, exc].
ParseStep(q) == append_declaration(q, declaration(q.p))

RECURSIVE ParseLoop(_)
ParseLoop(q) ==
    IF q.exc # "none" \/ p_is_at_end(q.p) THEN q ELSE ParseLoop(ParseStep(q))

\* Parser(tokens).parse(): the Parser afterwards, the statement list, and
\* exc = "hang" when parse() never returns.
parse(tokens) == ParseLoop([p |-> Parser(tokens), statements |-> <<>>, exc |-> "none"])

-----------------------------------------------------------------------------
(* Dictionaries: a Python dict is a function; <<>> is the empty dict.      *)

Put(m, key, v) == [x \in DOMAIN m \cup {key} |-> IF x = key THEN v ELSE m[x]]

\* What dict.get returns for a missing key of Interpreter.locals (None).
NoDepth == -1

-----------------------------------------------------------------------------
(* Resolver (resolver.py).  r is the Resolver object together with the      *)
(* Interpreter.locals table it fills and the errors it reported; exc names  *)
(* the Python exception that ended the pass, "none" when it ran through.    *)

\* Resolver.__init__, for an interpreter whose locals table is locals.
Resolver(locals) ==
    [scopes |-> <<>>, current_function |-> "NONE", current_class |-> "NONE",
     locals |-> locals, errs |-> <<>>, exc |-> "none", resolved |-> <<>>]

rs_report(r, token, message) == [r EXCEPT !.errs = Append(r.errs, parse_error(token, message))]

\* enter_scope().__enter__ and __exit__
begin_scope(r) == [r EXCEPT !.scopes = Append(r.scopes, <<>>)]
end_scope(r) == [r EXCEPT !.scopes = SubSeq(r.scopes, 1, Len(r.scopes) - 1)]

\* self.scopes[-1][name] = value
set_innermost(r, name, value) ==
    [r EXCEPT !.scopes[Len(r.scopes)] = Put(r.scopes[Len(r.scopes)], name, value)]

rs_declare(r, token) ==
    IF r.scopes = <<>> THEN r
    ELSE LET r1 == IF token.lexeme \in DOMAIN r.scopes[Len(r.scopes)]
                   THEN rs_report(r, token, "A variable with that name already exists in this scope")
                   ELSE r
         IN  set_innermost(r1, token.lexeme, FALSE)

rs_define(r, token) ==
    IF r.scopes # <<>> THEN set_innermost(r, token.lexeme, TRUE) ELSE r

\* Interpreter.resolve
interpreter_resolve(locals, expr, depth) == Put(locals, expr, depth)

\* One call of Interpreter.resolve as the resolver made it: the node, the
\* depth, and what locals.get(expr) was before the call.
resolve_call(locals, expr, depth) ==
    [k |-> "Resolve", expr |-> expr, depth |-> depth,
     prior |-> IF expr \in DOMAIN locals THEN locals[expr] ELSE NoDepth]

\* enumerate(reversed(self.scopes)): i counts from the innermost scope.
RECURSIVE resolve_local_from(_, _, _, _)
resolve_local_from(r, expr, token, i) ==
    IF i >= Len(r.scopes) THEN r
    ELSE IF token.lexeme \in DOMAIN r.scopes[Len(r.scopes) - i]
    THEN [r EXCEPT !.locals = interpreter_resolve(r.locals, expr, i),
                   !.resolved = Append(@, resolve_call(r.locals, expr, i))]
    ELSE resolve_local_from(r, expr, token, i + 1)

\* One call of _resolve_local as it went: the node, the token, the scope stack
\* it searched, and the depth table before and after it.
observe_lookup(r, r2, expr, token) ==
    [r2 EXCEPT !.resolved = Append(@, [k |-> "Lookup", expr |-> expr, token |-> token,
                                       scopes |-> r.scopes, before |-> r.locals,
                                       after |-> r2.locals])]

\* _resolve_local that counts the globals as one more scope: a name found in
\* no scope gets the depth len(self.scopes).
resolve_local_or_global(r, expr, token) ==
    observe_lookup(r,
                   IF \E i \in 1..Len(r.scopes) : token.lexeme \in DOMAIN r.scopes[i]
                   THEN resolve_local_from(r, expr, token, 0)
                   ELSE [r EXCEPT !.locals = interpreter_resolve(r.locals, expr, Len(r.scopes))],
                   expr, token)

resolve_local(r, expr, token) ==
    observe_lookup(r, resolve_local_from(r, expr, token, 0), expr, token)

RECURSIVE rs_resolve(_, _), rs_resolve_list(_, _, _), resolve_function(_, _, _)

\* for x in units: self._resolve(x), from position i on.
rs_resolve_list(r, units, i) ==
    IF r.exc # "none" \/ i > Len(units) THEN r
    ELSE rs_resolve_list(rs_resolve(r, units[i]), units, i + 1)

RECURSIVE declare_params(_, _, _)
declare_params(r, params, i) ==
    IF i > Len(params) THEN r
    ELSE declare_params(rs_define(rs_declare(r, params[i]), params[i]), params, i + 1)

\* Resolver._resolve_function.  An exception leaves current_function as set;
\* the scopes are closed by the with statements.
resolve_function(r, fn, ftype) ==
    LET enclosing_function == r.current_function
        r1 == begin_scope([r EXCEPT !.current_function = ftype])
        r2 == begin_scope(declare_params(r1, fn.params, 1))
        r3 == end_scope(end_scope(rs_resolve_list(r2, fn.body, 1)))
    IN  IF r3.exc # "none" THEN r3
        ELSE [r3 EXCEPT !.current_function = enclosing_function]

\* The body of "case ClassStmt(token, methods)": the second positional pattern
\* binds the second field of the NamedTuple, superclass.  Iterating None is a
\* TypeError; iterating a VariableExpr yields its token, and
\* _resolve_function fails on token.params after setting current_function.
resolve_class(r, unit) ==
    LET token == unit.token
        methods == unit.superclass
        r1 == [r EXCEPT !.current_class = "CLASS"]
        r2 == begin_scope(rs_define(rs_declare(r1, token), token))
        r3 == set_innermost(r2, <<"t", "h", "i", "s">>, TRUE)
        func_type == IF token.lexeme = <<"i", "n", "i", "t">> THEN "INITIALIZER" ELSE "METHOD"
        r4 == IF methods = NoneNode THEN [r3 EXCEPT !.exc = "TypeError"]
              ELSE [r3 EXCEPT !.current_function = func_type, !.exc = "AttributeError"]
    IN  end_scope(r4)

\* Resolver._resolve
rs_resolve(r, unit) ==
    IF r.exc # "none" THEN r
    ELSE CASE unit.k = "BlockStmt" ->
                end_scope(rs_resolve_list(begin_scope(r), unit.statements, 1))
           [] unit.k = "VarStmt" ->
                LET r1 == rs_declare(r, unit.name)
                    r2 == IF unit.initializer # NoneNode THEN rs_resolve(r1, unit.initializer)
                          ELSE r1
                IN  IF r2.exc # "none" THEN r2 ELSE rs_define(r2, unit.name)
           [] unit.k = "FunctionStmt" ->
                resolve_function(rs_define(rs_declare(r, unit.token), unit.token), unit, "FUNCTION")
           [] unit.k = "ExpressionStmt" -> rs_resolve(r, unit.expression)
           [] unit.k = "IfStmt" ->
                LET r1 == rs_resolve(rs_resolve(r, unit.condition), unit.then_branch)
                IN  IF unit.else_branch # NoneNode THEN rs_resolve(r1, unit.else_branch) ELSE r1
           [] unit.k = "PrintStmt" -> rs_resolve(r, unit.expression)
           [] unit.k = "ReturnStmt" ->
                LET r1 == IF r.current_function = "NONE"
                          THEN rs_report(r, unit.token, "Can't return from top-level code.")
                          ELSE r
                    r2 == IF unit.value # NoneNode /\ r1.current_function = "INITIALIZER"
                          THEN rs_report(r1, unit.token, "Can't return a value from an initializer.")
                          ELSE r1
                IN  IF unit.value # NoneNode THEN rs_resolve(r2, unit.value) ELSE r2
           [] unit.k = "WhileStmt" -> rs_resolve(rs_resolve(r, unit.condition), unit.body)
           [] unit.k = "BreakStmt" -> r
           [] unit.k = "ClassStmt" -> resolve_class(r, unit)
           [] unit.k = "VariableExpr" ->
                LET r1 == IF r.scopes # <<>>
                             /\ unit.token.lexeme \in DOMAIN r.scopes[Len(r.scopes)]
                             /\ r.scopes[Len(r.scopes)][unit.token.lexeme] = FALSE
                          THEN rs_report(r, unit.token,
                                         "Can't read local variable in its own initializer.")
                          ELSE r
                IN  resolve_local(r1, unit, unit.token)
           [] unit.k = "AssignExpr" ->
                LET r1 == rs_resolve(r, unit.value)
                IN  IF r1.exc # "none" THEN r1 ELSE resolve_local(r1, unit, unit.token)
           [] unit.k = "BinaryExpr" -> rs_resolve(rs_resolve(r, unit.left), unit.right)
           [] unit.k = "CallExpr" ->
                rs_resolve_list(rs_resolve(r, unit.callee), unit.arguments, 1)
           [] unit.k = "GroupingExpr" -> rs_resolve(r, unit.expression)
           [] unit.k = "LiteralExpr" -> r
           [] unit.k = "LogicalExpr" -> rs_resolve(rs_resolve(r, unit.left), unit.right)
           [] unit.k = "UnaryExpr" -> rs_resolve(r, unit.right)
           [] unit.k = "GetExpr" -> rs_resolve(r, unit.instance)
           [] unit.k = "SetExpr" -> rs_resolve(rs_resolve(r, unit.value), unit.instance)
           [] unit.k = "ThisExpr" ->
                IF r.current_class = "NONE" THEN [r EXCEPT !.exc = "TypeError"]
                ELSE resolve_local(r, unit, unit.token)
           [] OTHER -> r

\* Resolver(interpreter).resolve(statements)
resolver_resolve(locals, stmts) == rs_resolve_list(Resolver(locals), stmts, 1)

-----------------------------------------------------------------------------
(* Environment (environment.py) and the Interpreter object.  st is the      *)
(* interpreter: heap is the sequence of Environment objects ever created    *)
(* (frame 1 is globals), environment the current frame, funs the            *)
(* Lox_Function objects, locals the depth table, out the lines printed.     *)
(* An operation returns st with sig naming how it ended: "none", the        *)
(* signals "Return" and "Break", "LoxRuntimeError" (with err), a Python     *)
(* exception of the host ("KeyError", "AttributeError", "TypeError",        *)
(* "Exception"), or "fuel" when it did not finish within MaxFuel.           *)
(* trace is a history of the evaluations of Variable, Assign and Logical    *)
(* nodes and of while conditions, each with the frames it ran in.           *)

Globals == 1

NoErr == [token |-> Token("EOF", <<>>, NilV, 0), message |-> "", args |-> <<>>]

\* Interpreter.__init__; now is what time.time() returns.
Interpreter(now) ==
    [heap |-> <<[values |-> (<<"c", "l", "o", "c", "k">> :> NativeV), enclosing |-> 0]>>,
     environment |-> Globals, funs |-> <<>>, classes |-> <<>>, instances |-> <<>>,
     locals |-> <<>>, out |-> <<>>,
     sig |-> "none", val |-> NilV, err |-> NoErr, now |-> now, trace |-> <<>>]

Value(st, v) == [st EXCEPT !.val = v]
Observe(st, entry) == [st EXCEPT !.trace = Append(st.trace, entry)]
Signal(st, kind) == [st EXCEPT !.sig = kind]
RuntimeError(st, token, message, args) ==
    [st EXCEPT !.sig = "LoxRuntimeError",
               !.err = [token |-> token, message |-> message, args |-> args]]

\* Environment(enclosing): the new frame is the last of the heap.
NewEnvironment(st, enclosing) ==
    [st EXCEPT !.heap = Append(st.heap, [values |-> <<>>, enclosing |-> enclosing])]

env_define(st, e, name, value) == [st EXCEPT !.heap[e].values = Put(st.heap[e].values, name, value)]

RECURSIVE env_get(_, _, _)
env_get(st, e, token) ==
    IF token.lexeme \in DOMAIN st.heap[e].values THEN Value(st, st.heap[e].values[token.lexeme])
    ELSE IF st.heap[e].enclosing # 0 THEN env_get(st, st.heap[e].enclosing, token)
    ELSE RuntimeError(st, token, "Undefined variable", <<token.lexeme>>)

\* Environment.assign that defines the name in the outermost frame when no
\* frame of the chain holds it, instead of raising.
RECURSIVE env_assign_or_define(_, _, _, _)
env_assign_or_define(st, e, token, value) ==
    IF token.lexeme \in DOMAIN st.heap[e].values THEN env_define(st, e, token.lexeme, value)
    ELSE IF st.heap[e].enclosing # 0
    THEN env_assign_or_define(st, st.heap[e].enclosing, token, value)
    ELSE env_define(st, e, token.lexeme, value)

RECURSIVE env_assign(_, _, _, _)
env_assign(st, e, token, value) ==
    IF token.lexeme \in DOMAIN st.heap[e].values THEN env_define(st, e, token.lexeme, value)
    ELSE IF st.heap[e].enclosing # 0 THEN env_assign(st, st.heap[e].enclosing, token, value)
    ELSE RuntimeError(st, token, "Undefined variable", <<token.lexeme>>)

\* Environment._ancestor: the frame distance links up, 0 when the chain ends
\* before (None has no _ancestor: AttributeError).
RECURSIVE ancestor(_, _, _)
ancestor(st, e, distance) ==
    IF distance = 0 THEN e
    ELSE IF st.heap[e].enclosing = 0 THEN 0
    ELSE ancestor(st, st.heap[e].enclosing, distance - 1)

get_at(st, e, distance, name) ==
    LET a == ancestor(st, e, distance) IN
    IF a = 0 THEN Signal(st, "AttributeError")
    ELSE IF name \notin DOMAIN st.heap[a].values THEN Signal(st, "KeyError")
    ELSE Value(st, st.heap[a].values[name])

assign_at(st, e, distance, name, value) ==
    LET a == ancestor(st, e, distance) IN
    IF a = 0 THEN Signal(st, "AttributeError") ELSE env_define(st, a, name, value)

-----------------------------------------------------------------------------
(* Interpreter (interpreter.py).                                            *)

\* is_truthy with the two falsy values told apart by identity ("is") instead
\* of by ==, so that the number 0, which equals False, counts as truthy.
is_truthy_by_identity(val) == ~(val = NilV \/ val = BoolV(FALSE))

\* val not in (None, False): membership in a tuple compares with ==.
is_truthy(val) == ~(PyEq(val, NilV) \/ PyEq(val, BoolV(FALSE)))

RECURSIVE NatChars(_)
NatChars(n) ==
    IF n < 10 THEN <<DigitChar(n)>> ELSE Append(NatChars(n \div 10), DigitChar(n % 10))

\* str(float) with a trailing ".0" removed, for a number in hundredths.
NumChars(h) ==
    LET a == IF h < 0 THEN 0 - h ELSE h
        fp == a % 100
        frac == IF fp = 0 THEN <<>>
                ELSE IF fp % 10 = 0 THEN <<".", DigitChar(fp \div 10)>>
                ELSE <<".", DigitChar(fp \div 10), DigitChar(fp % 10)>>
    IN  (IF h < 0 THEN <<"-">> ELSE <<>>) \o NatChars(a \div 100) \o frac

stringify(st, val) ==
    CASE val.t = "num" -> NumChars(val.n)
      [] val.t = "bool" -> IF val.n = 1 THEN <<"t", "r", "u", "e">> ELSE <<"f", "a", "l", "s", "e">>
      [] val.t = "nil" -> <<"n", "i", "l">>
      [] val.t = "str" -> val.s
      [] val.t = "fun" -> <<"<", "f", "n", " ", "'">> \o st.funs[val.n].declaration.token.lexeme
                          \o <<"'", ">">>
      [] val.t = "native" -> <<"<", "n", "a", "t", "i", "v", "e", " ", "f", "n", " ", "'">>
                             \o val.s \o <<"'", ">">>
      [] val.t = "class" -> st.classes[val.n].name
      [] val.t = "instance" ->
            st.classes[st.instances[val.n].klass].name
            \o <<" ", "i", "n", "s", "t", "a", "n", "c", "e">>

\* to_float: only a float passes.
is_float(val) == val.t = "num"

\* self.locals.get(expr)
locals_get(st, expr) == IF expr \in DOMAIN st.locals THEN st.locals[expr] ELSE NoDepth

\* "if distance:" holds for a depth that is neither None nor 0.
distance_is_truthy(distance) == distance # NoDepth /\ distance # 0

\* Interpreter.lookup_variable
lookup_variable(st, token, expr) ==
    LET distance == locals_get(st, expr)
        r == IF distance_is_truthy(distance)
             THEN get_at(st, st.environment, distance, token.lexeme)
             ELSE env_get(st, Globals, token)
    IN  Observe(r, [k |-> "Variable", expr |-> expr, distance |-> distance,
                    environment |-> st.environment, heap |-> st.heap,
                    sig |-> r.sig, val |-> r.val])

\* The expression whose depth "case AssignExpr(token, expr)" looks up: the
\* pattern rebinds expr to the value field before self.locals.get(expr).
assign_depth_key(expr) == expr.value

\* Lox_Function(declaration, closure): a NamedTuple, equal by content, so an
\* equal object is the same function value.
RECURSIVE FindFun(_, _, _)
FindFun(funs, f, i) ==
    IF i > Len(funs) THEN 0 ELSE IF funs[i] = f THEN i ELSE FindFun(funs, f, i + 1)

Lox_Function(st, decl, closure) ==
    LET f == [declaration |-> decl, closure |-> closure]
        i == FindFun(st.funs, f, 1)
    IN  IF i # 0 THEN Value(st, FunV(i))
        ELSE Value([st EXCEPT !.funs = Append(st.funs, f)], FunV(Len(st.funs) + 1))

\* Lox_Class(name, methods): a NamedTuple, equal by content.  methods maps a
\* method's name to its function value.
Lox_Class(st, name, methods) ==
    LET c == [name |-> name, methods |-> methods]
        i == FindFun(st.classes, c, 1)
    IN  IF i # 0 THEN Value(st, ClassV(i))
        ELSE Value([st EXCEPT !.classes = Append(st.classes, c)], ClassV(Len(st.classes) + 1))

\* Lox_Instance(klass): a new object with no fields.
Lox_Instance(st, klass) ==
    Value([st EXCEPT !.instances = Append(st.instances, [klass |-> klass, fields |-> <<>>])],
          InstanceV(Len(st.instances) + 1))

\* Lox_Class.call: the arguments are not used.
class_call(st, klass, arguments) == Lox_Instance(st, klass)

\* Lox_Class.arity
class_arity(st, klass) == 0

\* Lox_Class.find_method: None when the class has no such method.
find_method(st, klass, method_name) ==
    IF method_name \in DOMAIN st.classes[klass].methods
    THEN st.classes[klass].methods[method_name] ELSE NilV

\* Lox_Instance.get
instance_get(st, instance, token) ==
    IF token.lexeme \in DOMAIN st.instances[instance].fields
    THEN Value(st, st.instances[instance].fields[token.lexeme])
    ELSE IF find_method(st, st.instances[instance].klass, token.lexeme) # NilV
    THEN Value(st, find_method(st, st.instances[instance].klass, token.lexeme))
    ELSE RuntimeError(st, token, "Undefined property", <<token.lexeme, instance>>)

\* Lox_Instance.set
instance_set(st, instance, token, value) ==
    [st EXCEPT !.instances[instance].fields = Put(@, token.lexeme, value)]

\* {method.token.lexeme: Lox_Function(method, self.environment) for method in
\* methods_stmts}, from position i on; the dict is returned in val.
RECURSIVE class_methods(_, _, _, _)
class_methods(st, methods_stmts, i, methods) ==
    IF i > Len(methods_stmts) THEN Value(st, methods)
    ELSE class_methods(Lox_Function(st, methods_stmts[i], st.environment), methods_stmts, i + 1,
                       Put(methods, methods_stmts[i].token.lexeme,
                           Lox_Function(st, methods_stmts[i], st.environment).val))

\* The body of "case ClassStmt" of _execute for methods_stmts a list of
\* method declarations: the name is defined as nil, then assigned the class.
define_class(st, token, methods_stmts) ==
    LET s1 == class_methods(env_define(st, st.environment, token.lexeme, NilV),
                            methods_stmts, 1, <<>>)
        s2 == Lox_Class(s1, token.lexeme, s1.val)
    IN  env_assign(s2, s2.environment, token, s2.val)

\* fun.arity() of a callable value.
arity_of(st, callee) ==
    IF callee.t = "fun" THEN Len(st.funs[callee.n].declaration.params)
    ELSE IF callee.t = "class" THEN class_arity(st, callee.n)
    ELSE 0

RECURSIVE define_params(_, _, _, _, _)
define_params(st, e, params, args, i) ==
    IF i > Len(params) \/ i > Len(args) THEN st
    ELSE define_params(env_define(st, e, params[i].lexeme, args[i]), e, params, args, i + 1)

RECURSIVE evaluate(_, _, _), evaluate_args(_, _, _, _, _), execute(_, _, _),
          execute_list(_, _, _, _), execute_block(_, _, _, _), while_loop(_, _, _),
          function_call(_, _, _, _)

\* for statement in statements: self._execute(statement), from position i on.
execute_list(st, stmts, i, fuel) ==
    IF st.sig # "none" \/ i > Len(stmts) THEN st
    ELSE execute_list(execute(st, stmts[i], fuel), stmts, i + 1, fuel)

\* The trace entry of an exit of _execute_block: the current environment
\* before the call and after it, and the signal the block ended with.
block_exit(st, before) ==
    Observe(st, [k |-> "Block", before |-> before, after |-> st.environment, sig |-> st.sig])

\* _execute_block with "self.environment = prev_env" after the loop instead
\* of in a finally clause: the environment is restored on normal exit only.
execute_block_without_finally(st, stmts, environment, fuel) ==
    LET prev_env == st.environment
        s1 == NewEnvironment(st, environment)
        s2 == execute_list([s1 EXCEPT !.environment = Len(s1.heap)], stmts, 1, fuel)
    IN  IF s2.sig = "fuel" THEN s2
        ELSE block_exit(IF s2.sig = "none" THEN [s2 EXCEPT !.environment = prev_env] ELSE s2,
                        prev_env)

\* Interpreter._execute_block: the finally clause restores the environment
\* however the statements ended.
execute_block(st, stmts, environment, fuel) ==
    LET prev_env == st.environment
        s1 == NewEnvironment(st, environment)
        s2 == execute_list([s1 EXCEPT !.environment = Len(s1.heap)], stmts, 1, fuel)
    IN  IF s2.sig = "fuel" THEN s2
        ELSE block_exit([s2 EXCEPT !.environment = prev_env], prev_env)

\* Lox_Function.call with Environment(interpreter.environment): the frame
\* of the parameters is enclosed by the environment of the caller.
function_call_in_caller(st, f, args, fuel) ==
    LET s1 == NewEnvironment(st, st.environment)
        environment == Len(s1.heap)
        s2 == define_params(s1, environment, f.declaration.params, args, 1)
        s3 == execute_block(s2, f.declaration.body, environment, fuel)
        s4 == IF s3.sig = "Return" THEN Signal(s3, "none")
              ELSE IF s3.sig = "none" THEN Value(s3, NilV)
              ELSE s3
    IN  Observe(s4, [k |-> "Call", declaration |-> f.declaration, body |-> s3.sig,
                     sig |-> s4.sig, frame |-> environment, closure |-> f.closure,
                     caller |-> st.environment, heap |-> s2.heap])

\* Lox_Function.call; the trace records how the body ended and what the
\* call let through to its caller, the frame made for the parameters, the
\* closure of the function, the environment of the caller, and the heap as
\* the body found it.
function_call(st, f, args, fuel) ==
    LET s1 == NewEnvironment(st, f.closure)
        environment == Len(s1.heap)
        s2 == define_params(s1, environment, f.declaration.params, args, 1)
        s3 == execute_block(s2, f.declaration.body, environment, fuel)
        s4 == IF s3.sig = "Return" THEN Signal(s3, "none")
              ELSE IF s3.sig = "none" THEN Value(s3, NilV)
              ELSE s3
    IN  Observe(s4, [k |-> "Call", declaration |-> f.declaration, body |-> s3.sig,
                     sig |-> s4.sig, frame |-> environment, closure |-> f.closure,
                     caller |-> st.environment, heap |-> s2.heap])

\* list(map(self._evaluate, args_exprs)): vals holds the values so far; the
\* list is returned in val.
evaluate_args(st, exprs, i, vals, fuel) ==
    IF i > Len(exprs) THEN Value(st, vals)
    ELSE LET s1 == evaluate(st, exprs[i], fuel)
         IN  IF s1.sig # "none" THEN s1
             ELSE evaluate_args(s1, exprs, i + 1, Append(vals, s1.val), fuel)

\* The trace entry of the evaluation of a CallExpr whose callee and
\* arguments have been evaluated (state s2), with the state res it ended in.
observe_call(s2, expr, callee, args, res) ==
    Observe(res, [k |-> "CallExpr", expr |-> expr, callee |-> callee, args |-> args,
                  before |-> [heap |-> s2.heap, out |-> s2.out, traced |-> Len(s2.trace)],
                  after |-> [heap |-> res.heap, out |-> res.out, traced |-> Len(res.trace)],
                  sig |-> res.sig, err |-> res.err])

\* "case CallExpr" of _evaluate with fun.call(self, args) not guarded by
\* "if len(args) == fun.arity()": zip in Lox_Function.call pairs as many
\* parameters and arguments as there are of both.
evaluate_call_without_arity_check(st, expr, fuel) ==
    LET s1 == evaluate(st, expr.callee, fuel) IN
    IF s1.sig # "none" THEN s1 ELSE
    LET callee == s1.val
        s2 == evaluate_args(s1, expr.arguments, 1, <<>>, fuel) IN
    IF s2.sig # "none" THEN s2 ELSE
    LET args == s2.val IN
    observe_call(s2, expr, callee, args,
        IF callee.t \notin {"fun", "native", "class"}
        THEN RuntimeError(s2, expr.r_paren, "Can only call functions or classes", <<>>)
        ELSE IF callee.t = "native" THEN Value(s2, s2.now)
        ELSE IF callee.t = "class" THEN class_call(s2, callee.n, args)
        ELSE IF fuel = 0 THEN Signal(s2, "fuel")
        ELSE LET s3 == function_call(s2, s2.funs[callee.n], args, fuel - 1)
             IN  IF s3.sig = "AttributeError"
                 THEN RuntimeError(s3, expr.r_paren, "Can only call functions or classes", <<>>)
                 ELSE s3)

\* "case CallExpr" of _evaluate.  An AttributeError raised anywhere inside
\* the try, also by the callee's body, becomes the runtime error.
evaluate_call(st, expr, fuel) ==
    LET s1 == evaluate(st, expr.callee, fuel) IN
    IF s1.sig # "none" THEN s1 ELSE
    LET callee == s1.val
        s2 == evaluate_args(s1, expr.arguments, 1, <<>>, fuel) IN
    IF s2.sig # "none" THEN s2 ELSE
    LET args == s2.val IN
    observe_call(s2, expr, callee, args,
        IF callee.t \notin {"fun", "native", "class"}
        THEN RuntimeError(s2, expr.r_paren, "Can only call functions or classes", <<>>)
        ELSE LET arity == arity_of(s2, callee)
             IN  IF Len(args) # arity
                 THEN RuntimeError(s2, expr.r_paren, "Expected arguments but got", <<arity, Len(args)>>)
                 ELSE IF callee.t = "native" THEN Value(s2, s2.now)
                 ELSE IF callee.t = "class" THEN class_call(s2, callee.n, args)
                 ELSE IF fuel = 0 THEN Signal(s2, "fuel")
                 ELSE LET s3 == function_call(s2, s2.funs[callee.n], args, fuel - 1)
                      IN  IF s3.sig = "AttributeError"
                          THEN RuntimeError(s3, expr.r_paren, "Can only call functions or classes", <<>>)
                          ELSE s3)

evaluate_binary(st, expr, fuel) ==
    LET s1 == evaluate(st, expr.left, fuel) IN
    IF s1.sig # "none" THEN s1 ELSE
    LET left == s1.val
        s2 == evaluate(s1, expr.right, fuel) IN
    IF s2.sig # "none" THEN s2 ELSE
    LET right == s2.val
        op == expr.operator
        numbers == is_float(left) /\ is_float(right)
        not_number == RuntimeError(s2, op, "Operand must be a number", <<>>)
    IN  CASE op.type = "MINUS" -> IF numbers THEN Value(s2, NumV(left.n - right.n)) ELSE not_number
          [] op.type = "SLASH" ->
                IF ~numbers THEN not_number
                ELSE IF right.n = 0 THEN RuntimeError(s2, op, "float division by zero", <<>>)
                ELSE Value(s2, NumV((left.n * 100) \div right.n))
          [] op.type = "STAR" ->
                IF numbers THEN Value(s2, NumV((left.n * right.n) \div 100)) ELSE not_number
          [] op.type = "PLUS" ->
                IF left.t = right.t /\ left.t = "num" THEN Value(s2, NumV(left.n + right.n))
                ELSE IF left.t = right.t /\ left.t = "str" THEN Value(s2, StrV(left.s \o right.s))
                ELSE RuntimeError([s2 EXCEPT !.out = Append(s2.out, <<"type", left.t, right.t>>)],
                                  op, "Operands must be numbers or strings", <<>>)
          [] op.type = "GREATER" ->
                IF numbers THEN Value(s2, BoolV(left.n > right.n)) ELSE not_number
          [] op.type = "GREATER_EQUAL" ->
                IF numbers THEN Value(s2, BoolV(left.n >= right.n)) ELSE not_number
          [] op.type = "LESS" ->
                IF numbers THEN Value(s2, BoolV(left.n < right.n)) ELSE not_number
          [] op.type = "LESS_EQUAL" ->
                IF numbers THEN Value(s2, BoolV(left.n <= right.n)) ELSE not_number
          [] op.type = "EQUAL_EQUAL" -> Value(s2, BoolV(PyEq(left, right)))
          [] op.type = "BANG_EQUAL" -> Value(s2, BoolV(~PyEq(left, right)))
          [] OTHER -> Signal(s2, "Exception")

\* "case LogicalExpr" of _evaluate.
evaluate_logical(st, expr, fuel) ==
    LET s1 == evaluate(st, expr.left, fuel) IN
    IF s1.sig # "none" THEN s1
    ELSE LET left == s1.val
             short == (expr.operator.type = "OR" /\ is_truthy(left)) \/ ~is_truthy(left)
             r == IF expr.operator.type = "OR" /\ is_truthy(left) THEN s1
                  ELSE IF ~is_truthy(left) THEN s1
                  ELSE evaluate(s1, expr.right, fuel)
         IN  Observe(r, [k |-> "Logical", expr |-> expr, left |-> left,
                         right_evaluated |-> ~short, sig |-> r.sig, val |-> r.val])

\* "case AssignExpr" of _evaluate.
evaluate_assign(st, expr, fuel) ==
    LET s1 == evaluate(st, expr.value, fuel) IN
    IF s1.sig # "none" THEN s1
    ELSE LET expr_val == s1.val
             distance == locals_get(s1, assign_depth_key(expr))
             s2 == IF distance_is_truthy(distance)
                   THEN assign_at(s1, s1.environment, distance, expr.token.lexeme, expr_val)
                   ELSE env_assign(s1, Globals, expr.token, expr_val)
             r == IF s2.sig # "none" THEN s2 ELSE Value(s2, expr_val)
         IN  Observe(r, [k |-> "Assign", expr |-> expr, value |-> expr_val,
                         environment |-> s1.environment, heap |-> s1.heap,
                         locals |-> s1.locals, after |-> r.heap,
                         sig |-> r.sig, val |-> r.val])

\* Interpreter._evaluate
evaluate(st, expr, fuel) ==
    CASE expr.k = "LiteralExpr" -> Value(st, expr.value)
      [] expr.k = "GroupingExpr" -> evaluate(st, expr.expression, fuel)
      [] expr.k = "UnaryExpr" ->
            LET s1 == evaluate(st, expr.right, fuel) IN
            IF s1.sig # "none" THEN s1
            ELSE IF expr.operator.type = "MINUS"
            THEN IF is_float(s1.val) THEN Value(s1, NumV(0 - s1.val.n))
                 ELSE RuntimeError(s1, expr.operator, "Operand must be a number", <<>>)
            ELSE IF expr.operator.type = "BANG" THEN Value(s1, BoolV(~is_truthy(s1.val)))
            ELSE Signal(s1, "Exception")
      [] expr.k = "LogicalExpr" -> evaluate_logical(st, expr, fuel)
      [] expr.k = "BinaryExpr" -> evaluate_binary(st, expr, fuel)
      [] expr.k = "VariableExpr" -> lookup_variable(st, expr.token, expr)
      [] expr.k = "AssignExpr" -> evaluate_assign(st, expr, fuel)
      [] expr.k = "CallExpr" -> evaluate_call(st, expr, fuel)
      [] expr.k = "GetExpr" ->
            LET s1 == evaluate(st, expr.instance, fuel) IN
            IF s1.sig # "none" THEN s1
            ELSE IF s1.val.t = "instance" THEN instance_get(s1, s1.val.n, expr.token)
            ELSE RuntimeError(s1, expr.token, "Only instances have properties.", <<>>)
      [] expr.k = "SetExpr" ->
            LET s1 == evaluate(st, expr.instance, fuel) IN
            IF s1.sig # "none" THEN s1
            ELSE IF s1.val.t # "instance"
            THEN RuntimeError(s1, expr.token, "Only instances have fields.", <<>>)
            ELSE LET s2 == evaluate(s1, expr.value, fuel) IN
                 IF s2.sig # "none" THEN s2
                 ELSE Value(instance_set(s2, s1.val.n, expr.token, s2.val), s2.val)
      [] OTHER -> Signal(st, "Exception")

\* "case WhileStmt" of _execute: the try encloses the condition and the body.
while_loop(st, stmt, fuel) ==
    IF fuel = 0 THEN Signal(st, "fuel")
    ELSE LET s0 == evaluate(st, stmt.condition, fuel)
             s1 == IF s0.sig # "none" THEN s0
                   ELSE Observe(s0, [k |-> "While", stmt |-> stmt, val |-> s0.val,
                                     entered |-> is_truthy(s0.val)])
         IN
         IF s1.sig = "Break" THEN Signal(s1, "none")
         ELSE IF s1.sig # "none" THEN s1
         ELSE IF ~is_truthy(s1.val) THEN s1
         ELSE LET s2 == execute(s1, stmt.body, fuel) IN
              IF s2.sig = "Break" THEN Signal(s2, "none")
              ELSE IF s2.sig # "none" THEN s2
              ELSE while_loop(s2, stmt, fuel - 1)

\* "case ClassStmt(token, methods_stmts)" of _execute: methods_stmts is bound
\* to the superclass field.  Iterating None is a TypeError; iterating a
\* VariableExpr yields its token, which has no attribute token.
execute_class(st, stmt) ==
    LET s1 == env_define(st, st.environment, stmt.token.lexeme, NilV)
    IN  IF stmt.superclass = NoneNode THEN Signal(s1, "TypeError")
        ELSE Signal(s1, "AttributeError")

\* Interpreter._execute
execute(st, stmt, fuel) ==
    CASE stmt.k = "PrintStmt" ->
            LET s1 == evaluate(st, stmt.expression, fuel) IN
            IF s1.sig # "none" THEN s1
            ELSE [s1 EXCEPT !.out = Append(s1.out, stringify(s1, s1.val))]
      [] stmt.k = "ExpressionStmt" -> evaluate(st, stmt.expression, fuel)
      [] stmt.k = "VarStmt" ->
            LET s1 == IF stmt.initializer = NoneNode THEN Value(st, NilV)
                      ELSE evaluate(st, stmt.initializer, fuel)
            IN  IF s1.sig # "none" THEN s1
                ELSE env_define(s1, s1.environment, stmt.name.lexeme, s1.val)
      [] stmt.k = "BlockStmt" ->
            LET s1 == NewEnvironment(st, st.environment)
            IN  execute_block(s1, stmt.statements, Len(s1.heap), fuel)
      [] stmt.k = "IfStmt" ->
            LET s1 == evaluate(st, stmt.condition, fuel) IN
            IF s1.sig # "none" THEN s1
            ELSE IF is_truthy(s1.val) THEN execute(s1, stmt.then_branch, fuel)
            ELSE IF stmt.else_branch # NoneNode THEN execute(s1, stmt.else_branch, fuel)
            ELSE s1
      [] stmt.k = "WhileStmt" -> while_loop(st, stmt, fuel)
      [] stmt.k = "BreakStmt" -> Signal(st, "Break")
      [] stmt.k = "FunctionStmt" ->
            LET s1 == Lox_Function(st, stmt, st.environment)
            IN  env_define(s1, s1.environment, stmt.token.lexeme, s1.val)
      [] stmt.k = "ReturnStmt" ->
            LET s1 == IF stmt.value = NoneNode THEN Value(st, NilV)
                      ELSE evaluate(st, stmt.value, fuel)
            IN  IF s1.sig # "none" THEN s1 ELSE Signal(s1, "Return")
      [] stmt.k = "ClassStmt" -> execute_class(st, stmt)
      [] OTHER -> st

-----------------------------------------------------------------------------
(* The driver (lox.py).  The program is entered as "stdin" (python lox.py   *)
(* --), as "file" (python lox.py script) or by "import" (another module     *)
(* calls lox.Lox.run).  Run as a script, lox.py is the module __main__, and *)
(* the scanner, parser, resolver and interpreter import it a second time    *)
(* as the module lox: there are then two Lox classes, each with its own     *)
(* had_error and had_runtime_error.  Reports go to the class of module lox; *)
(* Lox.run and Lox.run_file read the class of the module they are in.       *)

Classes == {"__main__", "lox"}

\* class Lox, once per module, with standard error and the process's exit
\* code (-1 while it runs); interpret_invoked records a call of
\* Interpreter.interpret.
Lox(entry) ==
    [entry |-> entry, had_error |-> [c \in Classes |-> FALSE],
     had_runtime_error |-> [c \in Classes |-> FALSE], stderr |-> <<>>,
     exit_code |-> -1, interpret_invoked |-> FALSE]

\* The class the name Lox denotes inside lox.py's own functions.
RunClass(entry) == IF entry = "import" THEN "lox" ELSE "__main__"

\* lox.Lox.report, for each report of a pass.
report(l, reports) ==
    IF reports = <<>> THEN l
    ELSE [l EXCEPT !.stderr = l.stderr \o reports, !.had_error["lox"] = TRUE]

\* lox.Lox.runtime_error
runtime_error(l, error) ==
    [l EXCEPT !.stderr = Append(l.stderr, [line |-> error.token.line, at |-> "",
                                           lexeme |-> <<>>, message |-> error.message,
                                           args |-> error.args]),
              !.had_runtime_error["lox"] = TRUE]

\* Lox.stdin_run: source += input() for each line; input() drops the newline.
stdin_source(text) == SelectSeq(text, LAMBDA c : c # "\n")

Src_print_1 ==
    <<"p", "r", "i", "n", "t", " ", "1", ";">>
Src_two_lines ==
    <<"v", "a", "r", " ", "a", " ", "=", " ", "1", ";", "\n", "p", "r", "i", "n", "t", " ", "a", ";">>
Src_return_top ==
    <<"r", "e", "t", "u", "r", "n", ";">>
Src_print_return ==
    <<"p", "r", "i", "n", "t", " ", "1", ";", " ", "r", "e", "t", "u", "r", "n", ";">>
Src_unterminated ==
    <<"p", "r", "i", "n", "t", " ", "\"", "a">>
Src_print_nothing ==
    <<"p", "r", "i", "n", "t", " ", ";">>
Src_bad_char ==
    <<"@">>
Src_redeclare ==
    <<"{", " ", "v", "a", "r", " ", "a", " ", "=", " ", "1", ";", " ", "v", "a", "r", " ", "a", " ", "=", " ", "2", ";", " ", "}">>
Src_add_nil ==
    <<"p", "r", "i", "n", "t", " ", "1", " ", "+", " ", "n", "i", "l", ";">>
Src_comment_line ==
    <<"/", "/", " ", "c", "\n", "p", "r", "i", "n", "t", " ", "1", ";">>
Src_open_brace ==
    <<"{">>
Src_open_fun ==
    <<"f", "u", "n", " ", "f", "(", ")", " ", "{">>
Src_open_block ==
    <<"{", " ", "p", "r", "i", "n", "t", " ", "1", ";">>
Src_block_gap ==
    <<"{", " ", "p", "r", "i", "n", "t", " ", ";", " ", "}">>
Src_fun_gap ==
    <<"f", "u", "n", " ", "f", "(", ")", " ", "{", " ", "p", "r", "i", "n", "t", " ", ";", " ", "p", "r", "i", "n", "t", " ", "1", ";", " ", "}">>
Src_class_A ==
    <<"c", "l", "a", "s", "s", " ", "A", " ", "{", "}">>
Src_while_zero ==
    <<"v", "a", "r", " ", "a", " ", "=", " ", "1", ";", "\n", "w", "h", "i", "l", "e", " ", "(", "a", ")", " ", "{", " ", "p", "r", "i", "n", "t", " ", "a", ";", " ", "a", " ", "=", " ", "0", ";", " ", "}">>

Sources ==
    {Src_print_1,
     Src_two_lines,
     Src_return_top,
     Src_print_return,
     Src_unterminated,
     Src_print_nothing,
     Src_bad_char,
     Src_redeclare,
     Src_add_nil,
     Src_comment_line,
     Src_open_brace,
     Src_open_fun,
     Src_open_block,
     Src_block_gap,
     Src_fun_gap,
     Src_class_A,
     Src_while_zero}

Entries == {"stdin", "file", "import"}

NoScanner == Scanner(<<>>)
NoParse == [p |-> Parser(<<>>), statements |-> <<>>, exc |-> "none"]

\* What time.time() returns in a run.
Now == NumV(0)

Init ==
    /\ pc = "start"
    /\ source \in Sources
    /\ sc = NoScanner
    /\ ps = NoParse
    /\ statements = <<>>
    /\ interp = Interpreter(Now)
    /\ idx = 0
    /\ lox \in {Lox(e) : e \in Entries}
    /\ probe = <<>>

\* Lox.stdin_run up to its call of Lox.run; run_file's read; the caller's text.
ReadSource ==
    /\ pc = "start"
    /\ source' = IF lox.entry = "stdin" THEN stdin_source(source) ELSE source
    /\ pc' = "scan"
    /\ UNCHANGED <<sc, ps, statements, interp, idx, lox, probe>>

\* Lox.run: scanner.scan_tokens()
RunScan ==
    /\ pc = "scan"
    /\ sc' = scan_tokens(source)
    /\ lox' = report(lox, sc'.errs)
    /\ pc' = "parse"
    /\ UNCHANGED <<source, ps, statements, interp, idx, probe>>

\* Lox.run: parser.parse() and "if Lox.had_error: return"
RunParse ==
    /\ pc = "parse"
    /\ ps' = parse(sc.tokens)
    /\ lox' = report(lox, ps'.p.errs)
    /\ statements' = IF ps'.exc = "none" THEN ps'.statements ELSE <<>>
    /\ pc' = IF ps'.exc = "hang" THEN "hang"
             ELSE IF lox'.had_error[RunClass(lox.entry)] THEN "returned"
             ELSE "resolve"
    /\ UNCHANGED <<source, sc, interp, idx, probe>>

\* Lox.run: resolver.resolve(statements) and "if Lox.had_error:", which is
\* what guards the call of Lox.interpreter.interpret(statements).
RunResolve ==
    /\ pc = "resolve"
    /\ LET r == resolver_resolve(interp.locals, statements)
           l == report(lox, r.errs)
           go == r.exc = "none" /\ l.had_error[RunClass(lox.entry)]
       IN  /\ interp' = [interp EXCEPT !.locals = r.locals, !.trace = @ \o r.resolved]
           /\ lox' = [l EXCEPT !.interpret_invoked = go]
           /\ pc' = IF r.exc # "none" THEN "crashed"
                    ELSE IF go THEN "interpret" ELSE "returned"
    /\ idx' = 1
    /\ UNCHANGED <<source, sc, ps, statements, probe>>

\* Interpreter.interpret: one turn of "for statement in statements".
ExecuteStatement ==
    /\ pc = "interpret"
    /\ interp.sig = "none"
    /\ idx <= Len(statements)
    /\ interp' = execute(interp, statements[idx], MaxFuel)
    /\ idx' = idx + 1
    /\ UNCHANGED <<pc, source, sc, ps, statements, lox, probe>>

\* Interpreter.interpret: the end of the loop, or the exception that left it.
\* Only LoxRuntimeError is caught; interp.sig keeps how the loop ended.
InterpretEnd ==
    /\ pc = "interpret"
    /\ interp.sig # "none" \/ idx > Len(statements)
    /\ lox' = IF interp.sig = "LoxRuntimeError" THEN runtime_error(lox, interp.err) ELSE lox
    /\ pc' = CASE interp.sig \in {"none", "LoxRuntimeError"} -> "returned"
               [] interp.sig = "fuel" -> "hang"
               [] OTHER -> "crashed"
    /\ UNCHANGED <<source, sc, ps, statements, interp, idx, probe>>

\* The end of the process: run_file's sys.exit(65) and sys.exit(70), exit
\* code 0 at the end of the script, 1 after an uncaught exception.
Exit ==
    /\ pc \in {"returned", "crashed"}
    /\ lox.entry # "import"
    /\ lox' = [lox EXCEPT !.exit_code =
                 IF pc = "crashed" THEN 1
                 ELSE IF lox.entry = "file" /\ lox.had_error["__main__"] THEN 65
                 ELSE IF lox.entry = "file" /\ lox.had_runtime_error["__main__"] THEN 70
                 ELSE 0]
    /\ pc' = "done"
    /\ UNCHANGED <<source, sc, ps, statements, interp, idx, probe>>

\* lox.Lox.run returns to, or raises into, the module that called it.
ReturnToCaller ==
    /\ pc \in {"returned", "crashed"}
    /\ lox.entry = "import"
    /\ pc' = "done"
    /\ UNCHANGED <<source, sc, ps, statements, interp, idx, lox, probe>>

Next ==
    \/ ReadSource
    \/ RunScan
    \/ RunParse
    \/ RunResolve
    \/ ExecuteStatement
    \/ InterpretEnd
    \/ Exit
    \/ ReturnToCaller

Spec == Init /\ [][Next]_vars

-----------------------------------------------------------------------------
(* The resolver and the interpreter on their own: Resolver(interpreter)     *)
(* .resolve(statements), then Interpreter.interpret(statements), statement  *)
(* by statement.  The programs are statement lists as the parser builds     *)
(* them (tokens carry their kind, lexeme, literal and line).  LogicalExpr   *)
(* nodes with an OR token are built here directly.                          *)

\* Deepest nesting of blocks around a declaration and around its use.
MaxDepth == 2

\* Largest start value of a countdown loop.
MaxCount == 3

Ident(name, line) == Token("IDENTIFIER", <<name>>, NilV, line)
Number(n) == LiteralExpr(NumV(n * 100))

\* stmts inside depth blocks: { { stmts } }
RECURSIVE Nest(_, _)
Nest(depth, stmts) == IF depth = 0 THEN stmts ELSE <<BlockStmt(Nest(depth - 1, stmts))>>

\* "var a = 1;" at line 1, then at line 2 a statement that prints a, assigns
\* 2 to a, or assigns b to a:
\*     {.. var b = 5; var a = 1; {.. <use> ..} print a; ..}
UseStmt(use) ==
    CASE use = "read" -> PrintStmt(VariableExpr(Ident("a", 2)))
      [] use = "assign" -> ExpressionStmt(AssignExpr(Ident("a", 2), Number(2)))
      [] use = "copy" -> ExpressionStmt(AssignExpr(Ident("a", 2), VariableExpr(Ident("b", 2))))

ScopeProgram(decl_depth, use_depth, use) ==
    Nest(decl_depth,
         <<VarStmt(Ident("b", 1), Number(5)), VarStmt(Ident("a", 1), Number(1))>>
         \o Nest(use_depth, <<UseStmt(use)>>)
         \o <<PrintStmt(VariableExpr(Ident("a", 3)))>>)

ScopePrograms ==
    {ScopeProgram(dd, du, use) : dd \in 0..MaxDepth, du \in 0..MaxDepth,
                                 use \in {"read", "assign", "copy"}}

\* var a = n; while (a) { print a; a = a - 1; }
CountdownProgram(n) ==
    <<VarStmt(Ident("a", 1), Number(n)),
      WhileStmt(VariableExpr(Ident("a", 2)),
                BlockStmt(<<PrintStmt(VariableExpr(Ident("a", 2))),
                            ExpressionStmt(AssignExpr(Ident("a", 2),
                                BinaryExpr(VariableExpr(Ident("a", 2)),
                                           Token("MINUS", <<"-">>, NilV, 2), Number(1))))>>))>>

CountdownPrograms == {CountdownProgram(n) : n \in 0..MaxCount}

\* var a = 0; print <left> or (a = 5); print a;      (and the same with and)
LogicalOperators == {Token("OR", <<"o", "r">>, NilV, 2), Token("AND", <<"a", "n", "d">>, NilV, 2)}
LogicalOperands == {NilV, BoolV(FALSE), BoolV(TRUE), NumV(0), NumV(100), StrV(<<>>), StrV(<<"s">>)}

LogicalProgram(left, operator) ==
    <<VarStmt(Ident("a", 1), Number(0)),
      PrintStmt(LogicalExpr(LiteralExpr(left), operator, AssignExpr(Ident("a", 2), Number(5)))),
      PrintStmt(VariableExpr(Ident("a", 3)))>>

LogicalPrograms == {LogicalProgram(left, op) : left \in LogicalOperands, op \in LogicalOperators}

Src_fun_param ==
    <<"f", "u", "n", " ", "f", "(", "a", ")", " ", "{", " ", "p", "r", "i", "n", "t", " ", "a", ";", " ", "}", "\n", "f", "(", "3", ")", ";">>
Src_fun_assign ==
    <<"f", "u", "n", " ", "f", "(", "a", ")", " ", "{", " ", "a", " ", "=", " ", "2", ";", " ", "p", "r", "i", "n", "t", " ", "a", ";", " ", "}", "\n", "f", "(", "3", ")", ";">>
Src_fun_block ==
    <<"f", "u", "n", " ", "f", "(", "a", ")", " ", "{", " ", "{", " ", "p", "r", "i", "n", "t", " ", "a", ";", " ", "}", " ", "}", "\n", "f", "(", "3", ")", ";">>
Src_closure ==
    <<"f", "u", "n", " ", "m", "k", "(", ")", " ", "{", " ", "v", "a", "r", " ", "c", " ", "=", " ", "0", ";", " ", "f", "u", "n", " ", "i", "n", "c", "(", ")", " ", "{", " ", "c", " ", "=", " ", "c", " ", "+", " ", "1", ";", " ", "r", "e", "t", "u", "r", "n", " ", "c", ";", " ", "}", " ", "r", "e", "t", "u", "r", "n", " ", "i", "n", "c", ";", " ", "}", "\n", "v", "a", "r", " ", "i", " ", "=", " ", "m", "k", "(", ")", ";", "\n", "p", "r", "i", "n", "t", " ", "i", "(", ")", ";">>
Src_and_chain ==
    <<"v", "a", "r", " ", "a", ";", " ", "v", "a", "r", " ", "b", ";", " ", "v", "a", "r", " ", "c", ";", "\n", "a", " ", "=", " ", "b", " ", "=", " ", "c", " ", "=", " ", "2", ";", "\n", "p", "r", "i", "n", "t", " ", "a", " ", "=", "=", " ", "b", " ", "a", "n", "d", " ", "b", " ", "=", "=", " ", "c", ";">>

\* The statement list Parser(Scanner(text).scan_tokens()).parse() returns.
Parsed(text) == parse(scan_tokens(text).tokens).statements

ParsedPrograms ==
    {Parsed(text) : text \in {Src_while_zero, Src_fun_param, Src_fun_assign, Src_fun_block,
                              Src_closure, Src_and_chain, Src_redeclare, Src_add_nil}}

\* The token list with the kind BREAK for each "break": the scanner itself
\* emits IDENTIFIER for the word.
BreakTokens(tokens) ==
    [i \in 1..Len(tokens) |->
        IF tokens[i].lexeme = <<"b", "r", "e", "a", "k">>
        THEN [tokens[i] EXCEPT !.type = "BREAK"] ELSE tokens[i]]

\* The statement list the parser returns for the tokens of text in which
\* every "break" has the kind BREAK.
ParsedWithBreak(text) == parse(BreakTokens(scan_tokens(text).tokens)).statements

\* A loop ended by its own break; a return inside a loop inside a function;
\* a function declared in a loop, with a break in its body, called through
\* the global function sink from an inner loop.
Src_loop_break == <<"w", "h", "i", "l", "e", " ", "(", "t", "r", "u", "e", ")", " ", "{", " ", "p", "r", "i", "n", "t", " ", "1", ";", " ", "b", "r", "e", "a", "k", ";", " ", "}", "\n", "p", "r", "i", "n", "t", " ", "2", ";">>
Src_loop_return == <<"f", "u", "n", " ", "f", "(", ")", " ", "{", " ", "w", "h", "i", "l", "e", " ", "(", "t", "r", "u", "e", ")", " ", "{", " ", "r", "e", "t", "u", "r", "n", " ", "1", ";", " ", "}", " ", "}", "\n", "p", "r", "i", "n", "t", " ", "f", "(", ")", ";">>
Src_break_in_fun ==
    <<"f", "u", "n", " ", "s", "i", "n", "k", "(", "k", ")", " ", "{", " ", "k", "(", ")", ";", " ", "}", "\n", "w", "h", "i", "l", "e", " ", "(", "t", "r", "u", "e", ")", " ", "{", " ", "f", "u", "n", " ", "f", "(", ")", " ", "{", " ", "b", "r", "e", "a", "k", ";", " ", "}", " ", "w", "h", "i", "l", "e", " ", "(", "t", "r", "u", "e", ")", " ", "{", " ", "s", "i", "n", "k", "(", "f", ")", ";", " ", "{", " ", "f", ";", " ", "}", " ", "p", "r", "i", "n", "t", " ", "\"", "i", "n", "\"", ";", " ", "}", " ", "p", "r", "i", "n", "t", " ", "\"", "x", "\"", ";", " ", "b", "r", "e", "a", "k", ";", " ", "}">>

SignalPrograms == {ParsedWithBreak(text) : text \in {Src_loop_break, Src_loop_return, Src_break_in_fun}}

\* Calls with fewer and with more arguments than the callee has parameters,
\* and with an argument that is itself a call.
Src_too_few == <<"f", "u", "n", " ", "f", "(", "a", ",", " ", "b", ")", " ", "{", " ", "p", "r", "i", "n", "t", " ", "a", ";", " ", "}", "\n", "f", "(", "1", ")", ";", "\n", "p", "r", "i", "n", "t", " ", "2", ";">>
Src_too_many == <<"v", "a", "r", " ", "n", " ", "=", " ", "0", ";", "\n", "f", "u", "n", " ", "f", "(", ")", " ", "{", " ", "n", " ", "=", " ", "1", ";", " ", "p", "r", "i", "n", "t", " ", "n", ";", " ", "}", "\n", "{", " ", "f", "(", "1", ",", " ", "2", ")", ";", " ", "}">>
Src_clock_arg == <<"f", "u", "n", " ", "g", "(", ")", " ", "{", " ", "p", "r", "i", "n", "t", " ", "7", ";", " ", "r", "e", "t", "u", "r", "n", " ", "1", ";", " ", "}", "\n", "p", "r", "i", "n", "t", " ", "c", "l", "o", "c", "k", "(", "g", "(", ")", ")", ";">>

ArityPrograms == {Parsed(text) : text \in {Src_too_few, Src_too_many, Src_clock_arg}}

\* Calls from an environment that is not the closure of the callee: from a
\* function that has a local of the name the callee reads from the globals,
\* from a block whose local the callee names, and with a local as argument.
Src_caller_local == <<"v", "a", "r", " ", "x", " ", "=", " ", "1", ";", "\n", "f", "u", "n", " ", "s", "h", "o", "w", "(", ")", " ", "{", " ", "p", "r", "i", "n", "t", " ", "x", ";", " ", "}", "\n", "f", "u", "n", " ", "c", "a", "l", "l", "e", "r", "(", ")", " ", "{", " ", "v", "a", "r", " ", "x", " ", "=", " ", "2", ";", " ", "s", "h", "o", "w", "(", ")", ";", " ", "}", "\n", "c", "a", "l", "l", "e", "r", "(", ")", ";">>
Src_caller_only == <<"f", "u", "n", " ", "s", "h", "o", "w", "(", ")", " ", "{", " ", "p", "r", "i", "n", "t", " ", "y", ";", " ", "}", "\n", "{", " ", "v", "a", "r", " ", "y", " ", "=", " ", "2", ";", " ", "s", "h", "o", "w", "(", ")", ";", " ", "}">>
Src_caller_arg == <<"f", "u", "n", " ", "p", "a", "i", "r", "(", "a", ")", " ", "{", " ", "p", "r", "i", "n", "t", " ", "a", ";", " ", "}", "\n", "{", " ", "v", "a", "r", " ", "a", " ", "=", " ", "1", ";", " ", "v", "a", "r", " ", "b", " ", "=", " ", "2", ";", " ", "p", "a", "i", "r", "(", "b", ")", ";", " ", "}">>

CallerPrograms == {Parsed(text) : text \in {Src_caller_local, Src_caller_only, Src_caller_arg}}

\* The same name read twice on one line at two depths: in a block and in the
\* block around it; in a function body and in a block of it; assigned twice.
Src_same_line_block == <<"v", "a", "r", " ", "a", " ", "=", " ", "1", ";", "\n", "{", " ", "v", "a", "r", " ", "a", " ", "=", " ", "2", ";", " ", "{", " ", "p", "r", "i", "n", "t", " ", "a", ";", " ", "}", " ", "p", "r", "i", "n", "t", " ", "a", ";", " ", "}">>
Src_same_line_fun == <<"f", "u", "n", " ", "f", "(", "a", ")", " ", "{", " ", "{", " ", "p", "r", "i", "n", "t", " ", "a", ";", " ", "}", " ", "p", "r", "i", "n", "t", " ", "a", ";", " ", "}", "\n", "f", "(", "1", ")", ";">>
Src_same_line_assign == <<"f", "u", "n", " ", "f", "(", "a", ")", " ", "{", " ", "{", " ", "a", " ", "=", " ", "2", ";", " ", "}", " ", "a", " ", "=", " ", "2", ";", " ", "p", "r", "i", "n", "t", " ", "a", ";", " ", "}", "\n", "f", "(", "1", ")", ";">>
Src_two_lines_fun == <<"f", "u", "n", " ", "f", "(", "a", ")", " ", "{", " ", "{", " ", "p", "r", "i", "n", "t", " ", "a", ";", " ", "}", "\n", "p", "r", "i", "n", "t", " ", "a", ";", " ", "}", "\n", "f", "(", "1", ")", ";">>

DepthPrograms ==
    {Parsed(text) : text \in {Src_same_line_block, Src_same_line_fun, Src_same_line_assign,
                              Src_two_lines_fun}}

\* Class declarations: without methods, with init of 0, 1 and 2 parameters,
\* with a method, with both.
Src_class_plain == <<"c", "l", "a", "s", "s", " ", "A", " ", "{", "}">>
Src_class_init0 == <<"c", "l", "a", "s", "s", " ", "A", " ", "{", " ", "i", "n", "i", "t", "(", ")", " ", "{", " ", "p", "r", "i", "n", "t", " ", "9", ";", " ", "}", " ", "}">>
Src_class_init1 == <<"c", "l", "a", "s", "s", " ", "A", " ", "{", " ", "i", "n", "i", "t", "(", "n", ")", " ", "{", " ", "p", "r", "i", "n", "t", " ", "n", ";", " ", "}", " ", "}">>
Src_class_init2 == <<"c", "l", "a", "s", "s", " ", "A", " ", "{", " ", "i", "n", "i", "t", "(", "a", ",", " ", "b", ")", " ", "{", " ", "p", "r", "i", "n", "t", " ", "a", ";", " ", "}", " ", "}">>
Src_class_method == <<"c", "l", "a", "s", "s", " ", "A", " ", "{", " ", "m", "(", ")", " ", "{", " ", "p", "r", "i", "n", "t", " ", "9", ";", " ", "}", " ", "}">>
Src_class_both == <<"c", "l", "a", "s", "s", " ", "A", " ", "{", " ", "i", "n", "i", "t", "(", "n", ")", " ", "{", " ", "p", "r", "i", "n", "t", " ", "n", ";", " ", "}", " ", "m", "(", "a", ",", " ", "b", ")", " ", "{", " ", "p", "r", "i", "n", "t", " ", "a", ";", " ", "}", " ", "}">>

\* Programs that are one class declaration without superclass.
ClassPrograms ==
    {Parsed(text) : text \in {Src_class_plain, Src_class_init1, Src_class_method, Src_class_both}}

Programs ==
    ScopePrograms \cup CountdownPrograms \cup LogicalPrograms \cup ParsedPrograms
    \cup SignalPrograms \cup ArityPrograms \cup ClassPrograms
    \cup DepthPrograms \cup CallerPrograms

InterpInit ==
    /\ pc = "resolve"
    /\ source = <<>>
    /\ sc = NoScanner
    /\ ps = NoParse
    /\ statements \in Programs
    /\ interp = Interpreter(Now)
    /\ idx = 1
    /\ lox = Lox("import")
    /\ probe = <<>>

\* Resolver(interpreter).resolve(statements); a program the resolver reported
\* an error on is not interpreted.
Resolve ==
    /\ pc = "resolve"
    /\ LET r == resolver_resolve(interp.locals, statements)
       IN  /\ interp' = [interp EXCEPT !.locals = r.locals, !.trace = @ \o r.resolved]
           /\ lox' = report(lox, r.errs)
           /\ pc' = IF r.exc # "none" THEN "crashed"
                    ELSE IF r.errs # <<>> THEN "rejected" ELSE "interpret"
    /\ UNCHANGED <<source, sc, ps, statements, idx, probe>>

InterpNext ==
    \/ Resolve
    \/ ExecuteStatement
    \/ InterpretEnd

InterpSpec == InterpInit /\ [][InterpNext]_vars

-----------------------------------------------------------------------------
(* The scanner on its own: Scanner(source).scan_tokens(), token by token.   *)

\* The reserved words of the language with the token kind of each.
ReservedWords ==
    (<<"a", "n", "d">> :> "AND")
    @@ (<<"o", "r">> :> "OR")
    @@ (<<"c", "l", "a", "s", "s">> :> "CLASS")
    @@ (<<"e", "l", "s", "e">> :> "ELSE")
    @@ (<<"f", "a", "l", "s", "e">> :> "FALSE")
    @@ (<<"f", "o", "r">> :> "FOR")
    @@ (<<"f", "u", "n">> :> "FUN")
    @@ (<<"i", "f">> :> "IF")
    @@ (<<"n", "i", "l">> :> "NIL")
    @@ (<<"p", "r", "i", "n", "t">> :> "PRINT")
    @@ (<<"r", "e", "t", "u", "r", "n">> :> "RETURN")
    @@ (<<"s", "u", "p", "e", "r">> :> "SUPER")
    @@ (<<"t", "h", "i", "s">> :> "THIS")
    @@ (<<"t", "r", "u", "e">> :> "TRUE")
    @@ (<<"v", "a", "r">> :> "VAR")
    @@ (<<"w", "h", "i", "l", "e">> :> "WHILE")
    @@ (<<"b", "r", "e", "a", "k">> :> "BREAK")

\* Words that are not reserved.
OtherWords == {<<"x">>, <<"o", "r", "b">>, <<"b", "r", "e", "a", "k", "s">>, <<"_", "i", "f">>}

Words == DOMAIN ReservedWords \cup OtherWords

\* One word, or two words with a blank between them.
ScanSources == Words \cup {w1 \o <<" ">> \o w2 : w1 \in Words, w2 \in Words}

ScanInit ==
    /\ pc = "scanning"
    /\ source \in ScanSources
    /\ sc = Scanner(source)
    /\ ps = NoParse
    /\ statements = <<>>
    /\ interp = Interpreter(Now)
    /\ idx = 0
    /\ lox = Lox("import")
    /\ probe = <<>>

\* Scanner.scan_tokens: one turn of "while not self.is_at_end()".
ScanToken ==
    /\ pc = "scanning"
    /\ ~sc_is_at_end(sc)
    /\ sc' = ScanStep(sc)
    /\ lox' = report(lox, SubSeq(sc'.errs, Len(sc.errs) + 1, Len(sc'.errs)))
    /\ UNCHANGED <<pc, source, ps, statements, interp, idx, probe>>

\* Scanner.scan_tokens: the EOF token and the return.
ScanEof ==
    /\ pc = "scanning"
    /\ sc_is_at_end(sc)
    /\ sc' = ScanEnd(sc)
    /\ pc' = "scanned"
    /\ UNCHANGED <<source, ps, statements, interp, idx, lox, probe>>

ScanNext ==
    \/ ScanToken
    \/ ScanEof

ScanSpec == ScanInit /\ [][ScanNext]_vars

-----------------------------------------------------------------------------
(* The parser on its own: Parser(tokens).parse(), declaration by            *)
(* declaration, on the tokens of expression statements built from           *)
(* identifiers joined by "or" and "and".                                    *)

Operands == {<<"a">>, <<"b">>, <<"c">>}
Connectives == {<<"o", "r">>, <<"a", "n", "d">>}

\* x or y;
Expr2(w1, op1, w2) == w1 \o <<" ">> \o op1 \o <<" ">> \o w2 \o <<";">>
\* a or b and c;
Expr3(w1, op1, w2, op2, w3) ==
    w1 \o <<" ">> \o op1 \o <<" ">> \o w2 \o <<" ">> \o op2 \o <<" ">> \o w3 \o <<";">>

ExprSources ==
    {Expr2(w1, op1, w2) : w1 \in Operands, op1 \in Connectives, w2 \in Operands}
    \cup {Expr3(w[1], o[1], w[2], o[2], w[3]) :
             w \in [1..3 -> Operands], o \in [1..2 -> Connectives]}

ParseInit ==
    /\ pc = "scan"
    /\ source \in ExprSources
    /\ sc = NoScanner
    /\ ps = NoParse
    /\ statements = <<>>
    /\ interp = Interpreter(Now)
    /\ idx = 0
    /\ lox = Lox("import")
    /\ probe = <<>>

\* Scanner(source).scan_tokens() and Parser(tokens)
ScanSource ==
    /\ pc = "scan"
    /\ sc' = scan_tokens(source)
    /\ ps' = [p |-> Parser(sc'.tokens), statements |-> <<>>, exc |-> "none"]
    /\ lox' = report(lox, sc'.errs)
    /\ pc' = "parse"
    /\ UNCHANGED <<source, statements, interp, idx, probe>>

\* Parser.parse: one turn of "while not self.is_at_end()".
ParseDeclaration ==
    /\ pc = "parse"
    /\ ps.exc = "none"
    /\ ~p_is_at_end(ps.p)
    /\ ps' = ParseStep(ps)
    /\ lox' = report(lox, SubSeq(ps'.p.errs, Len(ps.p.errs) + 1, Len(ps'.p.errs)))
    /\ UNCHANGED <<pc, source, sc, statements, interp, idx, probe>>

\* Parser.parse: "return statements".
ParseReturn ==
    /\ pc = "parse"
    /\ ps.exc = "none"
    /\ p_is_at_end(ps.p)
    /\ statements' = ps.statements
    /\ pc' = "parsed"
    /\ UNCHANGED <<source, sc, ps, interp, idx, lox, probe>>

ParseNext ==
    \/ ScanSource
    \/ ParseDeclaration
    \/ ParseReturn

ParseSpec == ParseInit /\ [][ParseNext]_vars

-----------------------------------------------------------------------------
(* is_truthy on its own, applied to one runtime value.                      *)

\* Numbers run from -MaxNum to MaxNum hundredths.
MaxNum == 50

RuntimeValues ==
    {NilV, BoolV(TRUE), BoolV(FALSE), NativeV}
    \cup {NumV(h) : h \in (0 - MaxNum)..MaxNum}
    \cup {StrV(s) : s \in {<<>>, <<"a">>, <<"0">>, <<"n", "i", "l">>}}
    \cup {FunV(1), FunV(2), ClassV(1), InstanceV(1), InstanceV(2)}

TruthyInit ==
    /\ pc = "apply"
    /\ source = <<>>
    /\ sc = NoScanner
    /\ ps = NoParse
    /\ statements = <<>>
    /\ interp = Interpreter(Now)
    /\ idx = 0
    /\ lox = Lox("import")
    /\ probe \in {[val |-> v, result |-> FALSE] : v \in RuntimeValues}

ApplyIsTruthy ==
    /\ pc = "apply"
    /\ probe' = [probe EXCEPT !.result = is_truthy(probe.val)]
    /\ pc' = "applied"
    /\ UNCHANGED <<source, sc, ps, statements, interp, idx, lox>>

TruthyNext == ApplyIsTruthy

TruthySpec == TruthyInit /\ [][TruthyNext]_vars

-----------------------------------------------------------------------------
(* == and != on their own: one BinaryExpr of two literals, evaluated.       *)

\* The values a literal can have: nil, the booleans, numbers, strings.
LiteralValues ==
    {NilV, BoolV(TRUE), BoolV(FALSE)}
    \cup {NumV(h) : h \in {0, 100, 200, MaxNum}}
    \cup {StrV(s) : s \in {<<>>, <<"a">>, <<"0">>, <<"1">>, <<"t", "r", "u", "e">>}}

EqualityOperators ==
    {Token("EQUAL_EQUAL", <<"=", "=">>, NilV, 1), Token("BANG_EQUAL", <<"!", "=">>, NilV, 1)}

EqualInit ==
    /\ pc = "apply"
    /\ source = <<>>
    /\ sc = NoScanner
    /\ ps = NoParse
    /\ statements = <<>>
    /\ interp = Interpreter(Now)
    /\ idx = 0
    /\ lox = Lox("import")
    /\ probe \in {BinaryExpr(LiteralExpr(a), op, LiteralExpr(b)) :
                      a \in LiteralValues, b \in LiteralValues, op \in EqualityOperators}

\* Interpreter._evaluate on the expression.
ApplyEvaluate ==
    /\ pc = "apply"
    /\ interp' = evaluate(interp, probe, MaxFuel)
    /\ pc' = "applied"
    /\ UNCHANGED <<source, sc, ps, statements, idx, lox, probe>>

EqualNext == ApplyEvaluate

EqualSpec == EqualInit /\ [][EqualNext]_vars

-----------------------------------------------------------------------------
(* The parser on token lists that hold BREAK tokens: the tokens of a text   *)
(* in which every "break" has the kind BREAK (the scanner itself emits      *)
(* IDENTIFIER for it), parsed declaration by declaration.  The text is one  *)
(* to MaxPieces statements, the k-th on line k.                             *)

MaxPieces == 3

Piece_break == <<"b", "r", "e", "a", "k", ";">>
Piece_print == <<"p", "r", "i", "n", "t", " ", "a", ";">>
Piece_while_break == <<"w", "h", "i", "l", "e", " ", "(", "a", ")", " ", "b", "r", "e", "a", "k", ";">>
Piece_while_block == <<"w", "h", "i", "l", "e", " ", "(", "a", ")", " ", "{", " ", "b", "r", "e", "a", "k", ";", " ", "}">>
Piece_while_bad == <<"w", "h", "i", "l", "e", " ", "(", "a", ")", " ", "p", "r", "i", "n", "t", " ", ";">>
Piece_for_break == <<"f", "o", "r", " ", "(", ";", ";", ")", " ", "b", "r", "e", "a", "k", ";">>
Piece_for_bad == <<"f", "o", "r", " ", "(", ";", ";", ")", " ", "p", "r", "i", "n", "t", " ", ";">>

Pieces ==
    {Piece_break, Piece_print, Piece_while_break, Piece_while_block, Piece_while_bad,
     Piece_for_break, Piece_for_bad}

RECURSIVE JoinLines(_)
JoinLines(pieces) ==
    IF Len(pieces) = 1 THEN pieces[1]
    ELSE pieces[1] \o <<"\n">> \o JoinLines(Tail(pieces))

PieceLists == UNION {[1..n -> Pieces] : n \in 1..MaxPieces}

BreakInit ==
    /\ pc = "parse"
    /\ probe \in PieceLists
    /\ source = JoinLines(probe)
    /\ sc = [scan_tokens(source) EXCEPT !.tokens = BreakTokens(@)]
    /\ ps = [p |-> Parser(sc.tokens), statements |-> <<>>, exc |-> "none"]
    /\ statements = <<>>
    /\ interp = Interpreter(Now)
    /\ idx = 0
    /\ lox = Lox("import")

BreakNext ==
    \/ ParseDeclaration
    \/ ParseReturn

BreakSpec == BreakInit /\ [][BreakNext]_vars

-----------------------------------------------------------------------------
(* Calls of a class value.  The statement that declares the class cannot be *)
(* executed (see execute_class), so the interpreter starts with the class   *)
(* value Lox_Class(name, methods) bound to the global name A, built from    *)
(* the parsed method declarations the way "case ClassStmt" builds it, and   *)
(* runs a program that calls A with 0 to MaxCallArgs arguments.             *)

MaxCallArgs == 2

\* The ClassStmt the parser returns for each text.
ClassStmts ==
    {Parsed(text)[1] : text \in {Src_class_plain, Src_class_init0, Src_class_init1,
                                 Src_class_init2, Src_class_method, Src_class_both}}

\* A(1, ..., n) on line 1.
ClassCall(n) ==
    CallExpr(VariableExpr(Ident("A", 1)), Token("RIGHT_PAREN", <<")">>, NilV, 1),
             [i \in 1..n |-> Number(i)])

\* "print A(..);" and "var o = A(..); print o;" with "print 0;" after it.
CallPrograms ==
    {<<PrintStmt(ClassCall(n)), PrintStmt(Number(0))>> : n \in 0..MaxCallArgs}
    \cup {<<VarStmt(Ident("o", 1), ClassCall(n)), PrintStmt(VariableExpr(Ident("o", 2))),
            PrintStmt(Number(0))>> : n \in 0..MaxCallArgs}

ClassInit ==
    /\ pc = "resolve"
    /\ source = <<>>
    /\ sc = NoScanner
    /\ ps = NoParse
    /\ statements \in CallPrograms
    /\ probe \in ClassStmts
    /\ interp = define_class(Interpreter(Now), probe.token, probe.methods)
    /\ idx = 1
    /\ lox = Lox("import")

ClassSpec == ClassInit /\ [][InterpNext]_vars

-----------------------------------------------------------------------------
(* The scanner on texts of several lines: one to MaxLinePieces pieces, each *)
(* a word, a blank, a newline, a string, a line comment or a block comment, *)
(* scanned token by token as Scanner.scan_tokens does.                      *)

MaxLinePieces == 3

LinePieces ==
    {<<"a">>, <<" ">>, <<"\n">>, <<"\"", "s", "\"">>, <<"/", "/", " ", "c">>, <<"/", "*", " ", "c", " ", "*", "/">>, <<"/", "*", "\n", "*", "/">>}

RECURSIVE Join(_)
Join(pieces) == IF pieces = <<>> THEN <<>> ELSE pieces[1] \o Join(Tail(pieces))

LineSources == {Join(pieces) : pieces \in UNION {[1..n -> LinePieces] : n \in 1..MaxLinePieces}}

LineInit ==
    /\ pc = "scanning"
    /\ source \in LineSources
    /\ sc = Scanner(source)
    /\ ps = NoParse
    /\ statements = <<>>
    /\ interp = Interpreter(Now)
    /\ idx = 0
    /\ lox = Lox("import")
    /\ probe = <<>>

LineSpec == LineInit /\ [][ScanNext]_vars

-----------------------------------------------------------------------------
(* The scanner on every text of one to MaxSourceLen characters over a small *)
(* alphabet (slash, star, quote, newline, a digit, a character no token     *)
(* starts with) and on some longer texts.  scan_tokens runs on the calling  *)
(* thread until it returns, so its loop is weakly fair.                     *)

MaxSourceLen == 3

SourceChars == {"/", "*", "\"", "\n", "1", "@"}

\* Longer texts: closed and open comments and strings around other tokens.
LongSources ==
    {<<"/", "*", "*", "/">>,
     <<"/", "*", " ", "@", " ", "*", "/", "1">>,
     <<"/", "*", "/", "*", "/", "1", "\n">>,
     <<"\"", "1", "\"", "@", "\"", "1">>,
     <<"1", ".", "1", "/", "*", "\n">>,
     <<"a", " ", "=", " ", "\"", "b", "\n", "/", "*", " ", "c">>,
     <<"/", "/", " ", "@", "\n", "\"">>,
     <<"1", ".", "/", "*", "*", "*">>}

AllSources == UNION {[1..n -> SourceChars] : n \in 1..MaxSourceLen} \cup LongSources

ScanAllInit ==
    /\ pc = "scanning"
    /\ source \in AllSources
    /\ sc = Scanner(source)
    /\ ps = NoParse
    /\ statements = <<>>
    /\ interp = Interpreter(Now)
    /\ idx = 0
    /\ lox = Lox("import")
    /\ probe = <<>>

ScanAllSpec == ScanAllInit /\ [][ScanNext]_vars /\ WF_vars(ScanNext)

-----------------------------------------------------------------------------
(* Environment.assign on its own: a heap of one to MaxFrames frames, each   *)
(* enclosed by the one before it and holding some of the names a and b with *)
(* the value 1; the environment assigned through is any of the frames (the  *)
(* frames after it are not on its chain); the name assigned is a, b or the  *)
(* name c that no frame holds, the value is 2.                              *)

MaxFrames == 3

FrameNames == {<<"a">>, <<"b">>}
AssignTokens == {Token("IDENTIFIER", n, NilV, 1) : n \in FrameNames \cup {<<"c">>}}

\* Environment(enclosing) with the names of held defined.
FrameHolding(held, enclosing) ==
    [values |-> [n \in held |-> NumV(100)], enclosing |-> enclosing]

FrameChains ==
    UNION {{[i \in 1..n |-> FrameHolding(held[i], i - 1)] : held \in [1..n -> SUBSET FrameNames]} :
           n \in 1..MaxFrames}

EnvInit ==
    /\ pc = "apply"
    /\ source = <<>>
    /\ sc = NoScanner
    /\ ps = NoParse
    /\ statements = <<>>
    /\ \E heap \in FrameChains, e \in 1..MaxFrames :
           /\ e <= Len(heap)
           /\ interp = [Interpreter(Now) EXCEPT !.heap = heap, !.environment = e]
    /\ idx = 0
    /\ lox = Lox("import")
    /\ probe \in {[token |-> t, value |-> NumV(200)] : t \in AssignTokens}

\* self.environment.assign(token, value)
ApplyAssign ==
    /\ pc = "apply"
    /\ interp' = env_assign(interp, interp.environment, probe.token, probe.value)
    /\ probe' = [token |-> probe.token, value |-> probe.value, before |-> interp.heap]
    /\ pc' = "applied"
    /\ UNCHANGED <<source, sc, ps, statements, idx, lox>>

EnvNext == ApplyAssign

EnvSpec == EnvInit /\ [][EnvNext]_vars

-----------------------------------------------------------------------------
(* Properties.                                                              *)

\* The interpreter as it was when the evaluation recorded in entry began.
StateAt(entry) ==
    [interp EXCEPT !.heap = entry.heap, !.environment = entry.environment,
                   !.sig = "none", !.val = NilV, !.err = NoErr]

TraceOf(kind) == {i \in 1..Len(interp.trace) : interp.trace[i].k = kind}

\* C1: in Lox.run, once the scanner, the parser or the resolver has reported
\* an error (had_error is set before evaluation), Interpreter.interpret is
\* never invoked on the program's statements.
C1_NoInterpretAfterStaticError == ~(lox.interpret_invoked /\ lox.had_error["lox"])

\* C2: for a program on which scanner, parser and resolver report no error,
\* Lox.run as used by the "--" stdin mode invokes Interpreter.interpret on the
\* parsed statements: when such a run has ended, interpret was invoked.
C2_CleanProgramIsInterpreted ==
    (pc = "done" /\ lox.entry = "stdin" /\ lox.stderr = <<>> /\ lox.exit_code = 0)
        => lox.interpret_invoked

\* C3: resolver soundness.  For a program the resolver accepted, at every
\* evaluation of a Variable node recorded with depth d in the depth table,
\* walking d enclosing links from the current environment reaches an existing
\* frame whose values contain the variable's name.
C3_ResolverSoundness ==
    \A i \in TraceOf("Variable") :
        LET e == interp.trace[i] IN
        e.distance # NoDepth =>
            LET frame == ancestor(e, e.environment, e.distance) IN
            /\ frame # 0
            /\ e.expr.token.lexeme \in DOMAIN e.heap[frame].values

\* C4: evaluating a Variable node, the interpreter tells "absent from the
\* depth table" from "present with depth 0": a node recorded with depth 0 is
\* read with get_at(0, name) from the current frame, and only a node absent
\* from the table is looked up by name in globals.
C4_DepthZeroIsNotAbsent ==
    \A i \in TraceOf("Variable") :
        LET e == interp.trace[i]
            want == IF e.distance = NoDepth THEN env_get(StateAt(e), Globals, e.expr.token)
                    ELSE get_at(StateAt(e), e.environment, e.distance, e.expr.token.lexeme)
        IN  (e.distance = NoDepth \/ e.distance = 0) =>
                /\ e.sig = want.sig
                /\ e.sig = "none" => e.val = want.val

\* C5: evaluating an Assign node evaluates its value and then uses the depth
\* recorded for that Assign node itself: in the depth table, the value is
\* written with assign_at(depth, name), otherwise with globals.assign; the
\* expression yields the assigned value.  So an assignment to a block-local
\* variable from the same or a nested block updates that binding.
C5_AssignUsesItsOwnDepth ==
    \A i \in TraceOf("Assign") :
        LET e == interp.trace[i]
            depth == locals_get(interp, e.expr)
            want == IF depth # NoDepth
                    THEN assign_at(StateAt(e), e.environment, depth, e.expr.token.lexeme, e.value)
                    ELSE env_assign(StateAt(e), Globals, e.expr.token, e.value)
        IN  /\ e.sig = want.sig
            /\ e.after = want.heap
            /\ e.sig = "none" => e.val = e.value

\* C6: is_truthy returns false exactly for nil and the boolean false; for
\* every other runtime value, the number 0, the empty string, callables and
\* instances included, it returns true.
C6_OnlyNilAndFalseAreFalsey ==
    pc = "applied" => (probe.result = FALSE <=> probe.val \in {NilV, BoolV(FALSE)})

\* The test program "var a = 1; while (a) { print a; a = 0; }" as parsed.
WhileZeroProgram == Parsed(Src_while_zero)

C8_LogicalShortCircuit ==
    /\ \A i \in TraceOf("Logical") :
           LET e == interp.trace[i]
               op == e.expr.operator.type
           IN  IF (op = "OR" /\ is_truthy(e.left)) \/ (op = "AND" /\ ~is_truthy(e.left))
               THEN ~e.right_evaluated /\ e.val = e.left
               ELSE e.right_evaluated
    /\ \A left \in {NilV, BoolV(FALSE)} :
           (pc = "returned" /\ statements = LogicalProgram(left, Token("OR", <<"o", "r">>, NilV, 2)))
               => interp.out = <<<<"5">>, <<"5">>>>

Var(word) == VariableExpr(Token("IDENTIFIER", word, NilV, 1))
OrToken == Token("OR", <<"o", "r">>, NilV, 1)
AndToken == Token("AND", <<"a", "n", "d">>, NilV, 1)

\* C9: the parser treats "or" and "and" as separate precedence levels: the
\* tokens of "x or y" parse without error to Logical(x, or, y), and those of
\* "a or b and c" to Logical(a, or, Logical(b, and, c)).
C9_OrAndPrecedence ==
    pc = "parsed" =>
        /\ \A x \in Operands, y \in Operands :
               source = Expr2(x, <<"o", "r">>, y) =>
                   /\ ps.p.errs = <<>>
                   /\ statements = <<ExpressionStmt(LogicalExpr(Var(x), OrToken, Var(y)))>>
        /\ \A a \in Operands, b \in Operands, c \in Operands :
               source = Expr3(a, <<"o", "r">>, b, <<"a", "n", "d">>, c) =>
                   /\ ps.p.errs = <<>>
                   /\ statements = <<ExpressionStmt(
                          LogicalExpr(Var(a), OrToken, LogicalExpr(Var(b), AndToken, Var(c))))>>

\* C10: for every reserved word (and, or, class, else, false, for, fun, if,
\* nil, print, return, super, this, true, var, while, break) the scanner emits
\* a token of that keyword's kind, not an IDENTIFIER token, when the
\* identifier lexeme equals the word.
C10_ReservedWordsAreKeywords ==
    pc = "scanned" =>
        \A i \in 1..Len(sc.tokens) :
            sc.tokens[i].lexeme \in DOMAIN ReservedWords =>
                sc.tokens[i].type = ReservedWords[sc.tokens[i].lexeme]

BreakOutsideLoop == "Expect 'break' to appear inside a loop."

\* C11: whenever the parser meets a BREAK token that is not inside the body
\* of a while or for statement, it reports "Expect 'break' to appear inside a
\* loop." at that token and produces no Break statement for it, whether the
\* out-of-loop break comes before or after other loops.
C11_BreakOutsideLoopIsReported ==
    pc = "parsed" =>
        \A k \in 1..Len(probe) :
            probe[k] = Piece_break =>
                /\ \E i \in 1..Len(ps.p.errs) :
                       ps.p.errs[i] = Report(k, "token", <<"b", "r", "e", "a", "k">>, BreakOutsideLoop)
                /\ \A i \in 1..Len(statements) :
                       ~(statements[i].k = "BreakStmt" /\ statements[i].token.line = k)

\* C12: a Break signal is consumed only by the while loop that lexically
\* encloses the break statement: a Break raised while a function body
\* executes never propagates out of Lox_Function.call, and neither a Break
\* nor a Return ever reaches Interpreter.interpret; a Return is consumed by
\* the nearest enclosing function call.
C12_SignalsStayInTheirConstruct ==
    /\ \A i \in TraceOf("Call") :
           /\ interp.trace[i].sig \notin {"Break", "Return"}
           /\ interp.trace[i].body # "Break"
    /\ pc \in {"interpret", "returned", "crashed"} => interp.sig \notin {"Break", "Return"}

\* C13: whenever Interpreter._execute_block exits, normally, through a Return
\* or Break signal or through a LoxRuntimeError, the current environment is
\* the frame it was before the call; so after Interpreter.interpret returns,
\* also after a reported runtime error, the current environment is globals.
C13_BlockRestoresEnvironment ==
    /\ \A i \in TraceOf("Block") : interp.trace[i].after = interp.trace[i].before
    /\ pc \in {"interpret", "returned"} => interp.environment = Globals

\* interpret has returned after a reported runtime error that left a block
\* entered from a frame other than globals; blocks were also left by a Break
\* or a Return in some run.
C13_Witness ==
    /\ pc = "returned"
    /\ lox.had_runtime_error["lox"]
    /\ \E i \in TraceOf("Block") :
           /\ interp.trace[i].sig = "LoxRuntimeError"
           /\ interp.trace[i].before # Globals

\* The number of parameters of a callable value: Lox_Function.arity, and 0
\* for the native clock and for a class.
ArityOf(callee) ==
    IF callee.t = "fun" THEN Len(interp.funs[callee.n].declaration.params) ELSE 0

\* The evaluations of calls whose argument count differs from the arity.
ArityMismatches ==
    {i \in TraceOf("CallExpr") :
        /\ interp.trace[i].callee.t \in {"fun", "native", "class"}
        /\ Len(interp.trace[i].args) # ArityOf(interp.trace[i].callee)}

\* C14: when a call's argument count differs from the callee's arity, the
\* interpreter raises the runtime error "Expected N arguments but got M." and
\* no statement of the callee's body is executed and no environment frame is
\* created for the call.
C14_ArityMismatchRunsNothing ==
    \A i \in ArityMismatches :
        LET e == interp.trace[i] IN
        /\ e.sig = "LoxRuntimeError"
        /\ e.err = [token |-> e.expr.r_paren, message |-> "Expected arguments but got",
                    args |-> <<ArityOf(e.callee), Len(e.args)>>]
        /\ e.after = e.before

\* A run that ended with the reported runtime error of a call with a wrong
\* number of arguments.
C14_Witness ==
    /\ pc = "returned"
    /\ lox.had_runtime_error["lox"]
    /\ ArityMismatches # {}

\* The declarations of the methods named init among methods.
InitMethods(methods) ==
    {methods[i] : i \in {j \in 1..Len(methods) : methods[j].token.lexeme = <<"i", "n", "i", "t">>}}

\* The evaluations of calls whose callee is a class value.
ClassCalls == {i \in TraceOf("CallExpr") : interp.trace[i].callee.t = "class"}

\* C15: calling a class value constructs a new instance of that class; if the
\* class defines a method named init, that method is invoked with the call's
\* arguments, and the class's arity is init's arity (0 without init); the
\* result of the call is the instance.
C15_ClassCallRunsInit ==
    \A i \in ClassCalls :
        LET e == interp.trace[i]
            inits == InitMethods(probe.methods)
            arity == IF inits = {} THEN 0 ELSE Len((CHOOSE m \in inits : TRUE).params)
        IN  IF Len(e.args) = arity
            THEN /\ e.sig = "none"
                 /\ \A m \in inits :
                        \E j \in TraceOf("Call") :
                            /\ j > e.before.traced
                            /\ j <= e.after.traced
                            /\ interp.trace[j].declaration = m
            ELSE e.sig = "LoxRuntimeError"


\* C16: resolving and then executing a class declaration without superclass
\* completes without an uncaught exception of the host, and afterwards the
\* class name is bound to a class value whose method table has exactly the
\* declared methods' names as keys, each mapped to a function value of that
\* method's declaration.
C16_ClassStatementCompletes ==
    (statements \in ClassPrograms /\ pc # "resolve") =>
        /\ pc # "crashed"
        /\ pc = "returned" =>
               LET stmt == statements[1]
                   name == stmt.token.lexeme
               IN  /\ name \in DOMAIN interp.heap[Globals].values
                   /\ interp.heap[Globals].values[name].t = "class"
                   /\ LET methods == interp.classes[interp.heap[Globals].values[name].n].methods
                      IN  /\ DOMAIN methods = {stmt.methods[i].token.lexeme : i \in 1..Len(stmt.methods)}
                          /\ \A i \in 1..Len(stmt.methods) :
                                 /\ methods[stmt.methods[i].token.lexeme].t = "fun"
                                 /\ interp.funs[methods[stmt.methods[i].token.lexeme].n].declaration
                                        = stmt.methods[i]


\* C17: two textually identical Variable or Assign nodes at different source
\* positions are distinct keys of the depth table.  The resolver visits each
\* node once, so a call of Interpreter.resolve that finds a depth under its
\* key finds the depth recorded for another node; recording must not change it.
C17_IdenticalNodesAreDistinctKeys ==
    \A i \in TraceOf("Resolve") :
        interp.trace[i].prior \in {NoDepth, interp.trace[i].depth}


\* C18: in the file mode and in the "--" stdin mode the process ends with exit
\* code 65 if a scan, parse or resolve error was reported, with 70 if a
\* runtime error was reported, and with 0 otherwise.
C18_ExitCodes ==
    (pc = "done" /\ lox.entry \in {"stdin", "file"}) =>
        lox.exit_code = IF lox.had_error["lox"] THEN 65
                        ELSE IF lox.had_runtime_error["lox"] THEN 70
                        ELSE 0


\* Equality of Lox values: the same variant and the same value.
LoxEqual(a, b) == a.t = b.t /\ a.n = b.n /\ a.s = b.s

\* C19: == is true exactly for two values of the same variant with the same
\* value, and != is its negation: a boolean never equals a number (true is
\* not 1, false is not 0), nil equals only nil.
C19_DifferentVariantsAreUnequal ==
    pc = "applied" =>
        /\ interp.sig = "none"
        /\ interp.val = BoolV((probe.operator.type = "EQUAL_EQUAL")
                                  = LoxEqual(probe.left.value, probe.right.value))


\* The number of newline characters among the first n characters of text.
Newlines(text, n) == Cardinality({i \in 1..n : text[i] = "\n"})

\* C20: every newline of the source advances the line counter, also inside a
\* block comment: each step of scan_tokens that emits a token gives it the
\* line 1 plus the number of newlines before the token's first character (for
\* the EOF token, before the end of the source).
C20_TokenLineCountsEveryNewline ==
    [][Len(sc'.tokens) = Len(sc.tokens) + 1 =>
           sc'.tokens[Len(sc'.tokens)].line =
               1 + Newlines(source, IF pc' = "scanned" THEN Len(source) ELSE sc'.start)]_vars


\* The positions of the EOF tokens in the token list.
EofPositions == {i \in 1..Len(sc.tokens) : sc.tokens[i].type = "EOF"}

\* C21: scan_tokens terminates on every source, also with unexpected
\* characters, unterminated strings and unterminated block comments; it never
\* reads past the end of the source (the IndexError of advance), and the list
\* it returns holds exactly one EOF token, its last element.
C21_ScanTokensTerminates ==
    /\ <>(pc = "scanned")
    /\ [](sc.current <= Len(source))
    /\ [](pc = "scanned" => EofPositions = {Len(sc.tokens)} /\ sc.tokens # <<>>)

\* A finished scan of a text with an unexpected character and an unterminated
\* block comment.
C21_Witness ==
    /\ pc = "scanned"
    /\ \E i \in 1..Len(sc.errs) : sc.errs[i].message = "Unexpected character"
    /\ \E i \in 1..Len(sc.errs) : sc.errs[i].message = "Unterminated block comment"


\* C22: Parser.parse terminates on every token list that ends with EOF, also
\* when a block or a function body opened with "{" is not closed before EOF:
\* the parse never ends up in a loop it cannot leave.
C22_ParseTerminates == ps.exc # "hang"


\* A statement list holds None, at its own level or in a list nested in one
\* of its statements.
RECURSIVE ListHasGap(_), StmtHasGap(_)
ListHasGap(stmts) ==
    \E i \in 1..Len(stmts) : stmts[i] = NoneNode \/ StmtHasGap(stmts[i])
StmtHasGap(stmt) ==
    CASE stmt.k = "BlockStmt" -> ListHasGap(stmt.statements)
      [] stmt.k = "FunctionStmt" -> ListHasGap(stmt.body)
      [] stmt.k = "ClassStmt" -> ListHasGap(stmt.methods)
      [] stmt.k = "WhileStmt" -> StmtHasGap(stmt.body)
      [] stmt.k = "IfStmt" -> \/ StmtHasGap(stmt.then_branch)
                              \/ (stmt.else_branch # NoneNode /\ StmtHasGap(stmt.else_branch))
      [] OTHER -> FALSE

\* C23: a declaration that failed with a parse error adds nothing to any
\* statement list: the list Parser.parse returns, and the lists of the blocks
\* and function bodies in it, hold statements only, never None.
C23_NoGapInStatementLists == ~ListHasGap(ps.statements)


\* The frames on the chain of the environment assigned through that held the
\* assigned name before the call.
Holders ==
    {e \in 1..interp.environment : probe.token.lexeme \in DOMAIN probe.before[e].values}

\* C24: Environment.assign of a name defined in no frame of the chain raises
\* the runtime error "Undefined variable 'X'." and changes no frame (the
\* binding is not created); of a name defined in the chain, it updates the
\* innermost frame holding it and changes no other frame.
C24_AssignUpdatesInnermostOrRaises ==
    pc = "applied" =>
        IF Holders = {}
        THEN /\ interp.sig = "LoxRuntimeError"
             /\ interp.err.token = probe.token
             /\ interp.err.message = "Undefined variable"
             /\ interp.err.args = <<probe.token.lexeme>>
             /\ interp.heap = probe.before
        ELSE /\ interp.sig = "none"
             /\ \A e \in 1..Len(interp.heap) :
                    IF \A h \in Holders : h <= e /\ e \in Holders
                    THEN interp.heap[e] =
                             [probe.before[e] EXCEPT !.values[probe.token.lexeme] = probe.value]
                    ELSE interp.heap[e] = probe.before[e]

\* An assignment of a name no frame holds, through the last of MaxFrames
\* frames, has raised; the frames before it hold other names.
C24_Witness ==
    /\ pc = "applied"
    /\ interp.environment = MaxFrames
    /\ Holders = {}
    /\ interp.sig = "LoxRuntimeError"
    /\ \E e \in 1..MaxFrames : DOMAIN probe.before[e].values = FrameNames


\* C25: the resolver records a depth only for references bound in a local
\* scope: a _resolve_local call whose name is in none of the open scopes
\* leaves the depth table as it was, and a call that records a depth records
\* one from 0 to the number of open scopes less one, for the node resolved.
C25_DepthOnlyForLocalReferences ==
    /\ \A i \in TraceOf("Lookup") :
           IF \A s \in 1..Len(interp.trace[i].scopes) :
                  interp.trace[i].token.lexeme \notin DOMAIN interp.trace[i].scopes[s]
           THEN interp.trace[i].after = interp.trace[i].before
           ELSE /\ interp.trace[i].expr \in DOMAIN interp.trace[i].after
                /\ interp.trace[i].after[interp.trace[i].expr]
                       \in 0..(Len(interp.trace[i].scopes) - 1)
                /\ interp.trace[i].after =
                       Put(interp.trace[i].before, interp.trace[i].expr,
                           interp.trace[i].after[interp.trace[i].expr])
    /\ \A i \in TraceOf("Resolve") : interp.trace[i].depth \in Nat
    /\ \A e \in DOMAIN interp.locals : interp.locals[e] \in Nat

\* A reference from inside two or more open scopes that is bound in none of
\* them has been looked up, and so has one bound in an outer local scope.
C25_Witness ==
    /\ \E i \in TraceOf("Lookup") :
           /\ Len(interp.trace[i].scopes) >= 2
           /\ \A s \in 1..Len(interp.trace[i].scopes) :
                  interp.trace[i].token.lexeme \notin DOMAIN interp.trace[i].scopes[s]
    /\ \E i \in TraceOf("Resolve") : interp.trace[i].depth >= 1


\* The frames from e outwards to the globals.
RECURSIVE EnvChain(_, _)
EnvChain(heap, e) == IF e = 0 THEN {} ELSE {e} \cup EnvChain(heap, heap[e].enclosing)

\* The names defined in the frames of a set.
NamesOn(heap, frames) == UNION {DOMAIN heap[e].values : e \in frames}

\* C26: in every call of a user function the frame of the parameters is
\* enclosed by the closure of the function, so its chain is that frame and
\* the chain of the closure: no frame that is on the chain of the caller's
\* environment only is on it, and no name defined in such frames only can be
\* found from it.
C26_CallFrameEnclosedByClosure ==
    \A i \in TraceOf("Call") :
        /\ interp.trace[i].heap[interp.trace[i].frame].enclosing = interp.trace[i].closure
        /\ EnvChain(interp.trace[i].heap, interp.trace[i].frame)
               = {interp.trace[i].frame}
                     \cup EnvChain(interp.trace[i].heap, interp.trace[i].closure)
        /\ \A e \in EnvChain(interp.trace[i].heap, interp.trace[i].caller)
                        \ EnvChain(interp.trace[i].heap, interp.trace[i].closure) :
               e \notin EnvChain(interp.trace[i].heap, interp.trace[i].frame)
        /\ \A n \in NamesOn(interp.trace[i].heap,
                            EnvChain(interp.trace[i].heap, interp.trace[i].caller))
                        \ (NamesOn(interp.trace[i].heap,
                                   EnvChain(interp.trace[i].heap, interp.trace[i].closure))
                               \cup DOMAIN interp.trace[i].heap[interp.trace[i].frame].values) :
               n \notin NamesOn(interp.trace[i].heap,
                                EnvChain(interp.trace[i].heap, interp.trace[i].frame))

\* A function has been called from an environment that is not on the chain
\* of its closure and that holds a name its closure's chain does not.
C26_Witness ==
    \E i \in TraceOf("Call") :
        /\ interp.trace[i].caller
               \notin EnvChain(interp.trace[i].heap, interp.trace[i].closure)
        /\ NamesOn(interp.trace[i].heap,
                   EnvChain(interp.trace[i].heap, interp.trace[i].caller))
               \ NamesOn(interp.trace[i].heap,
                         EnvChain(interp.trace[i].heap, interp.trace[i].frame)) # {}


\* C27: loop_depth counts the while and for bodies being parsed: it is back
\* at its earlier value when while_statement or for_statement is left, by a
\* return or by a LoxParseError from the loop body, so it is 0 whenever
\* Parser.parse starts a top-level declaration, and when it returns.
C27_LoopDepthZeroBetweenDeclarations ==
    pc \in {"parse", "parsed"} => ps.p.loop_depth = 0

====
